---------------------------- MODULE Spec2Model ----------------------------
(***************************************************************************)
(* Ring_chat: a replicated group-chat server cluster.  Servers organise    *)
(* themselves into a ring sorted by id, elect a leader with a Chang-Roberts*)
(* style election over the ring, detect crashes with heartbeats and        *)
(* replicate chat messages through the leader.                             *)
(*                                                                         *)
(* Server ids are modelled as the integers of Nodes; the Python code       *)
(* compares ids with <, > and sorted(), which is a total order, as is < on *)
(* integers.  Python's None is the value None.                             *)
(***************************************************************************)
EXTENDS Integers, Sequences, FiniteSets, TLC

\* The server ids of the cluster.
Nodes == {1, 2, 3}

\* Python None (no neighbor, no leader, no candidate).
None == 0

\* Addresses a record can carry.  IpOf/PortOf are the address a server
\* really announces; the other values only occur as arguments of direct
\* ring-manager calls.
Addrs == {<<"10.0.0.1", 8001>>, <<"10.0.0.2", 8002>>}
IpOf(id) == "10.0.0.1"
PortOf(id) == 8001

\* Program constants (seconds).
HEARTBEAT_INTERVAL == 2
HEARTBEAT_TIMEOUT == 6

\* hop_count of an ELECTION record is unbounded in the code and read by no
\* handler; the model counts it up to MaxHops and keeps it there.
MaxHops == 3

\* How many servers may crash in one run.
MaxCrashes == 1

\* How many records a TCP link may hold when an election timer restarts
\* an election.
MaxQueue == 2

\* How many chat messages the clients submit in one run.
MaxMessages == 2

\* The history limit of MessageHandler._add_to_history.
MAX_MESSAGE_HISTORY == 1000

\* How many messages short of the limit a history buffer starts, and how
\* many messages beyond the limit a buffer is given.
HistoryMargin == 2
MaxOverflow == 2

\* How many times a server handles FORWARD_MESSAGE records of one chat
\* message before the run is cut off.
MaxDeliveries == 3

\* How many history entries Server._on_client_joined sends (history[-50:]).
HISTORY_SLICE == 50

\* The chat clients, and how many CLIENT_JOIN records a client writes on
\* its connection.
Clients == {"c1", "c2"}
MaxJoins == 3

\* How many CLIENT_JOIN records a client writes where clients also leave.
MaxSessionJoins == 2

VARIABLES
    ring,       \* ring[n]: the RingManager of server n
    election,   \* election[n]: the ElectionService state of server n
    phase,      \* phase[n]: where the server process n is in its life
    net,        \* net[<<s, d>>]: records sent by s to d over TCP, in order
    retry,      \* retry[n]: ELECTION records parked by n's retry threads
    discovered_servers,
                \* discovered_servers[n]: ids in n's discovery table
    last_heartbeat_received,
                \* last_heartbeat_received[n][p]: None when n has no entry
                \* for p, else 1 + the seconds elapsed since n stamped p
    hb_done,    \* servers whose heartbeat loop already ran in this interval
    crashes,    \* number of servers crashed so far
    message_history,
                \* message_history[n]: MessageHandler.message_history of n
    delivered,  \* delivered[n]: the chat messages n has written to its
                \* local clients (broadcast_to_all_clients), in order
    sent,       \* number of chat messages clients have submitted so far
    clients,    \* clients[n]: the client ids of ClientHandler.clients of
                \* n, in dict order
    conn,       \* conn[c]: the TCP connection of client c: the server it
                \* leads to, how far the server has taken it, the records
                \* written by c and not yet read (up), the records written
                \* to c (down), the number of records c has written, and
                \* where the server thread of the connection stands in the
                \* chat message it is handling (pc, message)
    timer_thread,
                \* timer_thread[n]: where the thread that runs the
                \* timeout_handler of n's election timer stands
    last        \* the operation executed by the last step (observation only)

vars == <<ring, election, phase, net, retry, discovered_servers,
          last_heartbeat_received, hb_done, crashes, message_history,
          delivered, sent, clients, conn, timer_thread, last>>

\* The chat state of the servers
chat_vars == <<message_history, delivered, sent>>

\* Everything but the ring managers and the observation.
cluster_vars == <<election, phase, net, retry, discovered_servers,
                  last_heartbeat_received, hb_done, crashes, message_history,
                  delivered, sent, clients, conn, timer_thread>>

\* The client connections of the servers
client_vars == <<clients, conn>>

\* A client that has not connected.
NoConnection ==
    [server |-> None, stage |-> "none", up |-> <<>>, down |-> <<>>,
     written |-> 0, closed_by |-> "nobody",
     pc |-> "recv", message |-> [type |-> "None"]]

----------------------------------------------------------------------------
(* Sequence helpers (Python list / dict behaviour).                        *)

RECURSIVE SeqToSet(_)
SeqToSet(s) == IF s = <<>> THEN {} ELSE {Head(s)} \cup SeqToSet(Tail(s))

RECURSIVE SelectSeqBy(_, _)
\* s without the elements whose server_id is id (del dict[id])
SelectSeqBy(s, id) ==
    IF s = <<>> THEN <<>>
    ELSE IF Head(s).server_id = id THEN SelectSeqBy(Tail(s), id)
    ELSE <<Head(s)>> \o SelectSeqBy(Tail(s), id)

RECURSIVE sorted(_)
\* Python sorted() on a set of ids: ascending.
sorted(S) ==
    IF S = {} THEN <<>>
    ELSE LET m == CHOOSE x \in S : \A y \in S : x <= y
         IN  <<m>> \o sorted(S \ {m})

\* list.index(x), zero-based as in Python
index(s, x) == (CHOOSE i \in 1..Len(s) : s[i] = x) - 1

----------------------------------------------------------------------------
(* RingManager (ring_manager.py).  ring_members is a Python dict, kept     *)
(* here as the sequence of its ServerInfo values in insertion order.       *)

ServerInfo(server_id, ip, port) ==
    [server_id |-> server_id, ip |-> ip, port |-> port, is_leader |-> FALSE]

\* RingManager.__init__
RingManager ==
    [ring_members |-> <<>>, ring_order |-> <<>>,
     left_neighbor |-> None, right_neighbor |-> None]

\* ring_members.keys()
keys(r) == {r.ring_members[i].server_id : i \in 1..Len(r.ring_members)}

\* ring_members[server_id] / ring_members.get(server_id)
get_server(r, server_id) ==
    LET i == CHOOSE i \in 1..Len(r.ring_members) :
                 r.ring_members[i].server_id = server_id
    IN  r.ring_members[i]

\* A _rebuild_ring that takes the ids in dict (insertion) order.
rebuild_ring_insertion_order(r, own_server_id) ==
    LET ring_order == [i \in 1..Len(r.ring_members) |->
                          r.ring_members[i].server_id]
        ring_size == Len(ring_order)
    IN  IF own_server_id \notin SeqToSet(ring_order)
        THEN [r EXCEPT !.ring_order = ring_order,
                       !.left_neighbor = None, !.right_neighbor = None]
        ELSE LET own_index == index(ring_order, own_server_id)
             IN  IF ring_size = 1
                 THEN [r EXCEPT !.ring_order = ring_order,
                                !.left_neighbor = None,
                                !.right_neighbor = None]
                 ELSE [r EXCEPT
                         !.ring_order = ring_order,
                         !.left_neighbor =
                             ring_order[((own_index - 1) % ring_size) + 1],
                         !.right_neighbor =
                             ring_order[((own_index + 1) % ring_size) + 1]]

\* A _rebuild_ring that leaves the neighbors of a lone server as they were.
rebuild_ring_stale_single(r, own_server_id) ==
    LET ring_order == sorted(keys(r))
        ring_size == Len(ring_order)
    IN  IF own_server_id \notin SeqToSet(ring_order)
        THEN [r EXCEPT !.ring_order = ring_order,
                       !.left_neighbor = None, !.right_neighbor = None]
        ELSE LET own_index == index(ring_order, own_server_id)
             IN  IF ring_size = 1
                 THEN [r EXCEPT !.ring_order = ring_order]
                 ELSE [r EXCEPT
                         !.ring_order = ring_order,
                         !.left_neighbor =
                             ring_order[((own_index - 1) % ring_size) + 1],
                         !.right_neighbor =
                             ring_order[((own_index + 1) % ring_size) + 1]]

\* RingManager._rebuild_ring, applied to a manager whose ring_members has
\* just been changed.  Neighbors are ServerInfo objects of ring_members in
\* the code; the model keeps their ids.
rebuild_ring(r, own_server_id) ==
    LET ring_order == sorted(keys(r))
        ring_size == Len(ring_order)
    IN  IF own_server_id \notin SeqToSet(ring_order)
        THEN [r EXCEPT !.ring_order = ring_order,
                       !.left_neighbor = None, !.right_neighbor = None]
        ELSE LET own_index == index(ring_order, own_server_id)
             IN  IF ring_size = 1
                 THEN [r EXCEPT !.ring_order = ring_order,
                                !.left_neighbor = None,
                                !.right_neighbor = None]
                 ELSE [r EXCEPT
                         !.ring_order = ring_order,
                         !.left_neighbor =
                             ring_order[((own_index - 1) % ring_size) + 1],
                         !.right_neighbor =
                             ring_order[((own_index + 1) % ring_size) + 1]]

\* A plausible slip of add_server: a repeated id overwrites the record
\* (dict upsert) instead of returning early.
add_server_upsert(r, own_server_id, server_id, ip, port, is_leader) ==
    LET info == [ServerInfo(server_id, ip, port) EXCEPT !.is_leader = is_leader]
    IN  rebuild_ring(
            [r EXCEPT !.ring_members =
                 Append(SelectSeqBy(r.ring_members, server_id), info)],
            own_server_id)

\* RingManager.add_server
add_server(r, own_server_id, server_id, ip, port, is_leader) ==
    IF server_id \in keys(r) THEN r
    ELSE LET info == [ServerInfo(server_id, ip, port)
                        EXCEPT !.is_leader = is_leader]
         IN  rebuild_ring(
                 [r EXCEPT !.ring_members = Append(r.ring_members, info)],
                 own_server_id)

\* RingManager.remove_server
remove_server(r, own_server_id, server_id) ==
    IF server_id \notin keys(r) THEN r
    ELSE rebuild_ring(
             [r EXCEPT !.ring_members = SelectSeqBy(r.ring_members, server_id)],
             own_server_id)

\* set_leader that sets the target's flag without clearing the others
set_leader_no_clear(r, server_id) ==
    [r EXCEPT !.ring_members =
        [i \in 1..Len(r.ring_members) |->
            [r.ring_members[i] EXCEPT
                !.is_leader = (@ \/ r.ring_members[i].server_id = server_id)]]]

\* RingManager.set_leader: clear every flag, then set the target's flag if
\* the target is a member.
set_leader(r, server_id) ==
    [r EXCEPT !.ring_members =
        [i \in 1..Len(r.ring_members) |->
            [r.ring_members[i] EXCEPT
                !.is_leader = (r.ring_members[i].server_id = server_id)]]]

\* The ids whose record has is_leader = true.
leaders(r) ==
    {r.ring_members[i].server_id :
        i \in {j \in 1..Len(r.ring_members) : r.ring_members[j].is_leader}}

\* RingManager.get_leader: the first record, in dict order, that is flagged
\* (its id), or None.
get_leader(r) ==
    IF leaders(r) = {} THEN None
    ELSE LET i == CHOOSE i \in 1..Len(r.ring_members) :
                      /\ r.ring_members[i].is_leader
                      /\ \A j \in 1..(i - 1) : ~r.ring_members[j].is_leader
         IN  r.ring_members[i].server_id

\* RingManager.is_leader
is_leader(r, server_id) ==
    IF server_id \in keys(r) THEN get_server(r, server_id).is_leader ELSE FALSE

\* RingManager.ring_size
ring_size(r) == Len(r.ring_members)

----------------------------------------------------------------------------
(* ElectionService (election.py).  current_election_id is written by the   *)
(* code and never read, and is left out.  election_timer is TRUE while a   *)
(* threading.Timer is armed and has neither fired nor been cancelled.      *)
(*                                                                         *)
(* Every operation below is a function from the state of one server (its   *)
(* ring manager r and election state e) to an effect: the new r and e, the *)
(* records handed to send_to_neighbor (out, with their destination) and    *)
(* the arguments of the on_leader_elected calls (cb), in order.            *)

\* ElectionService.__init__
ElectionService ==
    [election_in_progress |-> FALSE, current_candidate_id |-> None,
     election_originator |-> None, election_timer |-> FALSE]

Effect(r, e, out, cb) == [ring |-> r, el |-> e, out |-> out, cb |-> cb]

\* protocol.create_election_message
create_election_message(candidate_id, originator_id, hop_count) ==
    [type |-> "ELECTION", candidate_id |-> candidate_id,
     originator_id |-> originator_id, hop_count |-> hop_count]

\* protocol.create_leader_announcement.  ring_topology is carried by the
\* code and never read; announcer (the server that completed the election)
\* is not a field of the code's record: it only labels the traversal.
create_leader_announcement(leader_id, announcer) ==
    [type |-> "LEADER_ANNOUNCEMENT", leader_id |-> leader_id,
     announcer |-> announcer]

\* protocol.create_heartbeat
create_heartbeat(server_id, flag) ==
    [type |-> "HEARTBEAT", server_id |-> server_id, is_leader |-> flag]

\* ElectionService._send_election_message: the records sent
send_election_message(r, candidate_id, originator_id, hop_count) ==
    IF r.right_neighbor = None THEN <<>>
    ELSE <<[dst |-> r.right_neighbor,
            msg |-> create_election_message(candidate_id, originator_id,
                                            hop_count)]>>

\* ElectionService._announce_leader / _forward_leader_announcement
announce_leader(r, leader_id, announcer) ==
    IF r.right_neighbor = None THEN <<>>
    ELSE <<[dst |-> r.right_neighbor,
            msg |-> create_leader_announcement(leader_id, announcer)]>>

\* start_election without the branch for a server that has no right
\* neighbor: the server waits for an ELECTION record that nobody sends.
start_election_ring_only(self, r, e) ==
    IF e.election_in_progress
    THEN Effect(r, e, <<>>, <<>>)
    ELSE Effect(r,
                [election_in_progress |-> TRUE,
                 current_candidate_id |-> self,
                 election_originator |-> self,
                 election_timer |-> TRUE],
                send_election_message(r, self, self, 0),
                <<>>)

\* start_election without the test of election_in_progress
start_election_always(self, r, e) ==
    IF r.right_neighbor = None
    THEN Effect(set_leader(r, self), e, <<>>, <<self>>)
    ELSE Effect(r,
                [election_in_progress |-> TRUE,
                 current_candidate_id |-> self,
                 election_originator |-> self,
                 election_timer |-> TRUE],
                send_election_message(r, self, self, 0),
                <<>>)

\* ElectionService.start_election
start_election(self, r, e) ==
    IF r.right_neighbor = None
    THEN Effect(set_leader(r, self), e, <<>>, <<self>>)
    ELSE IF e.election_in_progress
    THEN Effect(r, e, <<>>, <<>>)
    ELSE Effect(r,
                [election_in_progress |-> TRUE,
                 current_candidate_id |-> self,
                 election_originator |-> self,
                 election_timer |-> TRUE],
                send_election_message(r, self, self, 0),
                <<>>)

\* _complete_election that forgets to cancel the election timer
complete_election_keep_timer(self, r, e, winner_id) ==
    LET r1 == set_leader(r, winner_id)
    IN  Effect(r1,
               [e EXCEPT !.election_in_progress = FALSE],
               announce_leader(r1, winner_id, self),
               <<winner_id>>)

\* ElectionService._complete_election
complete_election(self, r, e, winner_id) ==
    LET r1 == set_leader(r, winner_id)
    IN  Effect(r1,
               [e EXCEPT !.election_in_progress = FALSE,
                         !.election_timer = FALSE],
               announce_leader(r1, winner_id, self),
               <<winner_id>>)

\* hop_count + 1, counted up to MaxHops
next_hop(hop_count) == IF hop_count < MaxHops THEN hop_count + 1 ELSE MaxHops

\* handle_election_message that forwards the carried candidate without
\* comparing it with the own id
handle_election_message_no_compare(self, r, e, message) ==
    LET e1 == IF ~e.election_in_progress
              THEN [e EXCEPT !.election_in_progress = TRUE,
                             !.election_timer = TRUE]
              ELSE e
    IN  IF message.originator_id = self
        THEN complete_election(self, r, e1, message.candidate_id)
        ELSE Effect(r, e1,
                    send_election_message(r, message.candidate_id,
                                          message.originator_id,
                                          next_hop(message.hop_count)), <<>>)

\* handle_election_message that puts its own id in both fields when it
\* replaces the candidate
handle_election_message_new_originator(self, r, e, message) ==
    LET candidate_id == message.candidate_id
        originator_id == message.originator_id
        hop_count == message.hop_count
        e1 == IF ~e.election_in_progress
              THEN [e EXCEPT !.election_in_progress = TRUE,
                             !.election_timer = TRUE]
              ELSE e
    IN  IF originator_id = self
        THEN complete_election(self, r, e1, candidate_id)
        ELSE IF candidate_id < self
        THEN Effect(r, e1,
                    send_election_message(r, self, self,
                                          next_hop(hop_count)), <<>>)
        ELSE Effect(r, e1,
                    send_election_message(r, candidate_id, originator_id,
                                          next_hop(hop_count)), <<>>)

\* ElectionService.handle_election_message, for a server that has a right
\* neighbor (the branch without one parks the record: see HandleElection).
handle_election_message(self, r, e, message) ==
    LET candidate_id == message.candidate_id
        originator_id == message.originator_id
        hop_count == message.hop_count
        e1 == IF ~e.election_in_progress
              THEN [e EXCEPT !.election_in_progress = TRUE,
                             !.election_timer = TRUE]
              ELSE e
    IN  IF originator_id = self
        THEN complete_election(self, r, e1, candidate_id)
        ELSE IF candidate_id > self
        THEN Effect(r, e1,
                    send_election_message(r, candidate_id, originator_id,
                                          next_hop(hop_count)), <<>>)
        ELSE IF candidate_id < self
        THEN Effect(r, e1,
                    send_election_message(r, self, originator_id,
                                          next_hop(hop_count)), <<>>)
        ELSE Effect(r, e1,
                    send_election_message(r, candidate_id, originator_id,
                                          next_hop(hop_count)), <<>>)

\* handle_leader_announcement that leaves the election state as it is
handle_leader_announcement_keep_state(self, r, e, message) ==
    LET leader_id == message.leader_id
        r1 == set_leader(r, leader_id)
    IN  Effect(r1, e,
               IF leader_id # self
               THEN announce_leader(r1, leader_id, message.announcer)
               ELSE <<>>,
               <<leader_id>>)

\* ElectionService.handle_leader_announcement
handle_leader_announcement(self, r, e, message) ==
    LET leader_id == message.leader_id
        r1 == set_leader(r, leader_id)
        e1 == [e EXCEPT !.election_in_progress = FALSE,
                        !.election_timer = FALSE]
    IN  Effect(r1, e1,
               IF leader_id # self
               THEN announce_leader(r1, leader_id, message.announcer)
               ELSE <<>>,
               <<leader_id>>)

\* timeout_handler of ElectionService._start_election_timer
timeout_handler(self, r, e) ==
    LET e1 == [e EXCEPT !.election_in_progress = FALSE,
                        !.election_timer = FALSE]
    IN  IF r.right_neighbor = None
        THEN Effect(set_leader(r, self), e1, <<>>, <<self>>)
        ELSE start_election(self, r, e1)

----------------------------------------------------------------------------
(* Server (server.py): the life of the process, the TCP links between      *)
(* servers, the election timer and the failure detector.                   *)

Listening(n) == phase[n] \in {"DISCOVERING", "ACTIVE"}

RECURSIVE send_all(_, _, _)
\* Server._send_to_server for every record of out, in order: the record is
\* appended to the TCP stream to its destination; a destination that is not
\* listening (crashed, not started) refuses it and the record is lost.
send_all(channels, src, out) ==
    IF out = <<>> THEN channels
    ELSE LET o == Head(out)
             next == IF Listening(o.dst)
                     THEN [channels EXCEPT ![<<src, o.dst>>] =
                               Append(@, o.msg)]
                     ELSE channels
         IN  send_all(next, src, Tail(out))

InFlight(types) ==
    \E c \in Nodes \X Nodes : \E i \in 1..Len(net[c]) : net[c][i].type \in types

\* No LEADER_ANNOUNCEMENT record is on its way, and no ELECTION record is
\* on its way or parked, except ELECTION records that have been going
\* round for MaxHops hops or more.
Quiet ==
    /\ \A c \in Nodes \X Nodes : \A i \in 1..Len(net[c]) :
          /\ net[c][i].type # "LEADER_ANNOUNCEMENT"
          /\ net[c][i].type = "ELECTION" => net[c][i].hop_count = MaxHops
    /\ \A n \in Nodes : retry[n] = <<>>

Apply(n, eff, op, msg) ==
    /\ ring' = [ring EXCEPT ![n] = eff.ring]
    /\ election' = [election EXCEPT ![n] = eff.el]
    /\ last' = [op |-> op, node |-> n, msg |-> msg, out |-> eff.out,
                cb |-> eff.cb,
                was_in_progress |-> election[n].election_in_progress]

\* Server.start, step 6 onwards: the initial election decision, after which
\* the heartbeat loop runs.  (The direct set_leader of a lone server calls
\* no on_leader_elected.)
start_decide(self, r, e) ==
    IF get_leader(r) # None THEN Effect(r, e, <<>>, <<>>)
    ELSE IF ring_size(r) > 1 THEN start_election(self, r, e)
    ELSE Effect(set_leader(r, self), e, <<>>, <<>>)

StartDecide(n) ==
    /\ phase[n] = "DISCOVERING"
    /\ LET eff == start_decide(n, ring[n], election[n])
       IN  /\ Apply(n, eff, "start", None)
           /\ net' = send_all(net, n, eff.out)
    /\ phase' = [phase EXCEPT ![n] = "ACTIVE"]
    /\ UNCHANGED <<retry, discovered_servers, last_heartbeat_received, hb_done,
                   crashes,
                   message_history, delivered, sent, client_vars,
                   timer_thread>>

\* Server._handle_server_message for an ELECTION record
HandleElection(s, d) ==
    /\ Listening(d)
    /\ net[<<s, d>>] # <<>>
    /\ Head(net[<<s, d>>]).type = "ELECTION"
    /\ LET message == Head(net[<<s, d>>])
           rest == [net EXCEPT ![<<s, d>>] = Tail(@)]
       IN  IF ring[d].right_neighbor = None
           THEN \* parked for the retry thread
                /\ retry' = [retry EXCEPT ![d] = Append(@, message)]
                /\ net' = rest
                /\ Apply(d, Effect(ring[d], election[d], <<>>, <<>>),
                         "park_election", message)
           ELSE /\ LET eff == handle_election_message(d, ring[d],
                                                      election[d], message)
                   IN  /\ Apply(d, eff, "handle_election_message", message)
                       /\ net' = send_all(rest, d, eff.out)
                /\ UNCHANGED retry
    /\ UNCHANGED <<phase, discovered_servers, last_heartbeat_received, hb_done,
                   crashes,
                   message_history, delivered, sent, client_vars,
                   timer_thread>>

\* A retry thread that, still without right neighbor after 2 s, keeps the
\* record for another retry instead of dropping it.
RetryElectionAgain(n) ==
    /\ Listening(n)
    /\ retry[n] # <<>>
    /\ LET message == Head(retry[n])
       IN  IF ring[n].right_neighbor # None
           THEN /\ LET eff == handle_election_message(n, ring[n],
                                                      election[n], message)
                   IN  /\ Apply(n, eff, "retry_election", message)
                       /\ net' = send_all(net, n, eff.out)
                /\ retry' = [retry EXCEPT ![n] = Tail(@)]
           ELSE /\ Apply(n, Effect(ring[n], election[n], <<>>, <<>>),
                         "drop_election", message)
                /\ UNCHANGED <<net, retry>>
    /\ UNCHANGED <<phase, discovered_servers, last_heartbeat_received, hb_done,
                   crashes, message_history, delivered, sent, client_vars,
                   timer_thread>>

\* retry_election of handle_election_message: 2 s after parking, the record
\* is processed again if a right neighbor exists, and dropped otherwise.
RetryElection(n) ==
    /\ Listening(n)
    /\ retry[n] # <<>>
    /\ LET message == Head(retry[n])
       IN  IF ring[n].right_neighbor # None
           THEN /\ LET eff == handle_election_message(n, ring[n],
                                                      election[n], message)
                   IN  /\ Apply(n, eff, "retry_election", message)
                       /\ net' = send_all(net, n, eff.out)
           ELSE /\ Apply(n, Effect(ring[n], election[n], <<>>, <<>>),
                         "drop_election", message)
                /\ UNCHANGED net
    /\ retry' = [retry EXCEPT ![n] = Tail(@)]
    /\ UNCHANGED <<phase, discovered_servers, last_heartbeat_received, hb_done,
                   crashes,
                   message_history, delivered, sent, client_vars,
                   timer_thread>>

\* Server._handle_server_message for a LEADER_ANNOUNCEMENT record
HandleAnnouncement(s, d) ==
    /\ Listening(d)
    /\ net[<<s, d>>] # <<>>
    /\ Head(net[<<s, d>>]).type = "LEADER_ANNOUNCEMENT"
    /\ LET message == Head(net[<<s, d>>])
           eff == handle_leader_announcement(d, ring[d], election[d], message)
       IN  /\ Apply(d, eff, "handle_leader_announcement", message)
           /\ net' = send_all([net EXCEPT ![<<s, d>>] = Tail(@)], d, eff.out)
    /\ UNCHANGED <<phase, retry, discovered_servers, last_heartbeat_received,
                   hb_done, crashes,
                   message_history, delivered, sent, client_vars,
                   timer_thread>>

\* The election timer of server n fires.  ELECTION_TIMEOUT (10 s) is long
\* against the pacing delay of a hop (0.5 s): the timer fires only when the
\* election records have come to rest or have been going round for long.
\* Records that go round for ever pile up with every restart: restarts stop
\* once a link holds MaxQueue records.
TimerExpire(n) ==
    /\ Listening(n)
    /\ election[n].election_timer
    /\ Quiet
    /\ \A c \in Nodes \X Nodes : Len(net[c]) < MaxQueue
    /\ LET eff == timeout_handler(n, ring[n], election[n])
       IN  /\ Apply(n, eff, "timeout_handler", None)
           /\ net' = send_all(net, n, eff.out)
    /\ UNCHANGED <<phase, retry, discovered_servers, last_heartbeat_received,
                   hb_done, crashes,
                   message_history, delivered, sent, client_vars,
                   timer_thread>>

\* timeout_handler up to its time.sleep(1): election_in_progress is cleared
\* under the election lock, and a server without right neighbor makes
\* itself leader and returns.
timeout_handler_clear(self, r, e) ==
    LET e1 == [e EXCEPT !.election_in_progress = FALSE]
    IN  IF r.right_neighbor = None
        THEN Effect(set_leader(r, self), e1, <<>>, <<self>>)
        ELSE Effect(r, e1, <<>>, <<>>)

\* The election timer of server n fires at any time while it is armed:
\* threading.Timer starts the thread that runs timeout_handler, and from
\* then on Timer.cancel has no effect on it.
TimerFire(n) ==
    /\ Listening(n)
    /\ election[n].election_timer
    /\ timer_thread[n] = "none"
    /\ \A c \in Nodes \X Nodes : Len(net[c]) < MaxQueue
    /\ timer_thread' = [timer_thread EXCEPT ![n] = "fired"]
    /\ Apply(n, Effect(ring[n], [election[n] EXCEPT !.election_timer = FALSE],
                       <<>>, <<>>),
             "timer_fired", None)
    /\ UNCHANGED <<phase, net, retry, discovered_servers,
                   last_heartbeat_received, hb_done, crashes,
                   message_history, delivered, sent, client_vars>>

\* The timer thread of server n runs timeout_handler up to time.sleep(1).
TimerClear(n) ==
    /\ Listening(n)
    /\ timer_thread[n] = "fired"
    /\ timer_thread' =
           [timer_thread EXCEPT
               ![n] = IF ring[n].right_neighbor = None
                      THEN "none" ELSE "sleeping"]
    /\ Apply(n, timeout_handler_clear(n, ring[n], election[n]),
             "timeout_handler", None)
    /\ UNCHANGED <<phase, net, retry, discovered_servers,
                   last_heartbeat_received, hb_done, crashes,
                   message_history, delivered, sent, client_vars>>

\* The timer thread of server n wakes up and calls
\* start_election("Election timeout").
TimerRestart(n) ==
    /\ Listening(n)
    /\ timer_thread[n] = "sleeping"
    /\ timer_thread' = [timer_thread EXCEPT ![n] = "none"]
    /\ LET eff == start_election(n, ring[n], election[n])
       IN  /\ Apply(n, eff, "timer_restart", None)
           /\ net' = send_all(net, n, eff.out)
    /\ UNCHANGED <<phase, retry, discovered_servers,
                   last_heartbeat_received, hb_done, crashes,
                   message_history, delivered, sent, client_vars>>

----------------------------------------------------------------------------
(* Failure detector (server.py).  Time is counted in heartbeat intervals:  *)
(* within one interval every running server executes the body of its       *)
(* heartbeat loop once, and the heartbeats sent are handled before the     *)
(* next interval begins (Tick).  An entry of last_heartbeat_received holds *)
(* 1 + the seconds elapsed since the stamp, so that None (0) is the code's *)
(* "no entry" default of dict.get(id, 0).                                  *)

Stamp == 1
Elapsed(last_seen) == last_seen - Stamp

\* Variant of _handle_server_crash that starts an election for every
\* crashed server, leader or not.
handle_server_crash_always_elects(self, eff, server_id) ==
    LET r1 == remove_server(eff.ring, self, server_id)
        se == start_election(self, r1, eff.el)
    IN  Effect(se.ring, se.el, eff.out \o se.out, eff.cb \o se.cb)

\* Server._handle_server_crash, applied after the effect eff of the crash
\* handling done so far in the same sweep.  server.is_leader is read from
\* the ServerInfo object, which is the one in ring_members until removed.
handle_server_crash(self, eff, server_id) ==
    LET was_leader == is_leader(eff.ring, server_id)
        r1 == remove_server(eff.ring, self, server_id)
    IN  IF was_leader
        THEN LET se == start_election(self, r1, eff.el)
             IN  Effect(se.ring, se.el, eff.out \o se.out, eff.cb \o se.cb)
        ELSE Effect(r1, eff.el, eff.out, eff.cb)

RECURSIVE handle_crashes(_, _, _)
handle_crashes(self, eff, crashed_servers) ==
    IF crashed_servers = <<>> THEN eff
    ELSE handle_crashes(self,
                        handle_server_crash(self, eff, Head(crashed_servers)),
                        Tail(crashed_servers))

RECURSIVE crashed_of_no_skip(_, _, _)
\* A sweep without the skip of the own id, whose missing entry (read as
\* last seen at time 0) counts as timed out.
crashed_of_no_skip(self, servers, lhr) ==
    IF servers = <<>> THEN <<>>
    ELSE LET id == Head(servers).server_id
             rest == crashed_of_no_skip(self, Tail(servers), lhr)
         IN  IF id = self THEN <<id>> \o rest
             ELSE IF lhr[id] = None THEN rest
             ELSE IF Elapsed(lhr[id]) > HEARTBEAT_TIMEOUT
             THEN <<id>> \o rest
             ELSE rest

RECURSIVE crashed_of_no_grace(_, _, _)
\* A sweep that takes the default 0 of a missing entry for a time stamp: a
\* member without an entry counts as timed out.
crashed_of_no_grace(self, servers, lhr) ==
    IF servers = <<>> THEN <<>>
    ELSE LET id == Head(servers).server_id
             rest == crashed_of_no_grace(self, Tail(servers), lhr)
         IN  IF id = self THEN rest
             ELSE IF lhr[id] = None THEN <<id>> \o rest
             ELSE IF Elapsed(lhr[id]) > HEARTBEAT_TIMEOUT
             THEN <<id>> \o rest
             ELSE rest

RECURSIVE crashed_of(_, _, _)
\* The crashed_servers list of _check_heartbeat_timeouts, in dict order.
crashed_of(self, servers, lhr) ==
    IF servers = <<>> THEN <<>>
    ELSE LET id == Head(servers).server_id
             rest == crashed_of(self, Tail(servers), lhr)
         IN  IF id = self \/ lhr[id] = None THEN rest
             ELSE IF Elapsed(lhr[id]) > HEARTBEAT_TIMEOUT
             THEN <<id>> \o rest
             ELSE rest

\* The entries _check_heartbeat_timeouts initialises: a member without an
\* entry is stamped with the current time.
stamped_of(self, r, lhr) ==
    [p \in Nodes |->
        IF p \in keys(r) /\ p # self /\ lhr[p] = None THEN Stamp ELSE lhr[p]]

\* Server._check_heartbeat_timeouts
check_heartbeat_timeouts(self, r, e, lhr) ==
    handle_crashes(self, Effect(r, e, <<>>, <<>>),
                   crashed_of(self, r.ring_members, lhr))

\* The heartbeat record _heartbeat_loop sends before the sweep
heartbeat_of(self, r) ==
    IF r.right_neighbor = None THEN <<>>
    ELSE <<[dst |-> r.right_neighbor,
            msg |-> create_heartbeat(self, is_leader(r, self))]>>

\* One iteration of Server._heartbeat_loop
HeartbeatLoop(n) ==
    /\ phase[n] = "ACTIVE"
    /\ n \notin hb_done
    /\ LET hb == heartbeat_of(n, ring[n])
           eff == check_heartbeat_timeouts(n, ring[n], election[n],
                                           last_heartbeat_received[n])
       IN  /\ Apply(n, Effect(eff.ring, eff.el, hb \o eff.out, eff.cb),
                    "heartbeat_loop",
                    [crashed |-> crashed_of(n, ring[n].ring_members,
                                            last_heartbeat_received[n]),
                     was_leader |->
                         {p \in Nodes : is_leader(ring[n], p)}])
           /\ net' = send_all(net, n, hb \o eff.out)
    /\ last_heartbeat_received' =
           [last_heartbeat_received EXCEPT
               ![n] = stamped_of(n, ring[n], last_heartbeat_received[n])]
    /\ hb_done' = hb_done \cup {n}
    /\ UNCHANGED <<phase, retry, discovered_servers, crashes,
                   message_history, delivered, sent, client_vars,
                   timer_thread>>

\* Server._handle_heartbeat
HandleHeartbeat(s, d) ==
    /\ Listening(d)
    /\ net[<<s, d>>] # <<>>
    /\ Head(net[<<s, d>>]).type = "HEARTBEAT"
    /\ LET message == Head(net[<<s, d>>])
       IN  /\ last_heartbeat_received' =
                  [last_heartbeat_received EXCEPT
                      ![d][message.server_id] = Stamp]
           /\ last' = [op |-> "handle_heartbeat", node |-> d,
                       msg |-> message, out |-> <<>>, cb |-> <<>>]
    /\ net' = [net EXCEPT ![<<s, d>>] = Tail(@)]
    /\ UNCHANGED <<ring, election, phase, retry, discovered_servers, hb_done,
                   crashes,
                   message_history, delivered, sent, client_vars,
                   timer_thread>>

\* HEARTBEAT_INTERVAL seconds pass (time.sleep at the end of the loop body):
\* every running server has run its loop and the heartbeats have arrived.
Tick ==
    /\ \E n \in Nodes : phase[n] = "ACTIVE"
    /\ \A n \in Nodes : phase[n] = "ACTIVE" => n \in hb_done
    /\ ~InFlight({"HEARTBEAT"})
    /\ hb_done' = {}
    /\ last_heartbeat_received' =
           [n \in Nodes |-> [p \in Nodes |->
               LET v == last_heartbeat_received[n][p]
               IN  IF v = None \/ Elapsed(v) > HEARTBEAT_TIMEOUT THEN v
                   ELSE v + HEARTBEAT_INTERVAL]]
    /\ last' = [op |-> "tick"]
    /\ UNCHANGED <<ring, election, phase, net, retry, discovered_servers,
                   crashes,
                   message_history, delivered, sent, client_vars,
                   timer_thread>>

\* Server n crashes (crash-stop): it takes no further step and the records
\* on their way to it are lost.
Crash(n) ==
    /\ Listening(n)
    /\ crashes < MaxCrashes
    /\ crashes' = crashes + 1
    /\ phase' = [phase EXCEPT ![n] = "CRASHED"]
    /\ net' = [c \in Nodes \X Nodes |-> IF c[2] = n THEN <<>> ELSE net[c]]
    /\ retry' = [retry EXCEPT ![n] = <<>>]
    /\ hb_done' = hb_done \ {n}
    /\ last' = [op |-> "crash", node |-> n]
    /\ UNCHANGED <<ring, election, discovered_servers,
                   last_heartbeat_received, message_history, delivered, sent,
                   client_vars, timer_thread>>

----------------------------------------------------------------------------
(* Chat replication (message_handler.py, server.py).                       *)

\* A chat message of a client; id tells the submitted messages apart.
chat_message(id) == [type |-> "CHAT_MESSAGE", id |-> id]

\* protocol.create_forward_message
create_forward_message(original_message, origin_server_id) ==
    [type |-> "FORWARD_MESSAGE", original_message |-> original_message,
     origin_server_id |-> origin_server_id]

\* An _add_to_history that cuts the buffer with [:1000].
add_to_history_keep_oldest(history, message) ==
    LET h == Append(history, message)
    IN  IF Len(h) > MAX_MESSAGE_HISTORY
        THEN SubSeq(h, 1, MAX_MESSAGE_HISTORY)
        ELSE h

\* MessageHandler._add_to_history
add_to_history(history, message) ==
    LET h == Append(history, message)
    IN  IF Len(h) > MAX_MESSAGE_HISTORY
        THEN SubSeq(h, Len(h) - MAX_MESSAGE_HISTORY + 1, Len(h))
        ELSE h

\* Variant of _broadcast_to_all_servers without the test
\* server.server_id != self.server_id.
RECURSIVE broadcast_to_all_servers_with_self(_, _, _)
broadcast_to_all_servers_with_self(self, servers, message) ==
    IF servers = <<>> THEN <<>>
    ELSE <<[dst |-> Head(servers).server_id, msg |-> message]>>
         \o broadcast_to_all_servers_with_self(self, Tail(servers), message)

RECURSIVE broadcast_to_all_servers(_, _, _)
\* Server._broadcast_to_all_servers: the records sent, one to every member
\* of the list servers but the sender, in dict order.
broadcast_to_all_servers(self, servers, message) ==
    IF servers = <<>> THEN <<>>
    ELSE (IF Head(servers).server_id = self THEN <<>>
          ELSE <<[dst |-> Head(servers).server_id, msg |-> message]>>)
         \o broadcast_to_all_servers(self, Tail(servers), message)

\* MessageHandler._distribute_message: history, local clients, fan-out
distribute_message(n, message) ==
    /\ message_history' =
           [message_history EXCEPT ![n] = add_to_history(@, message)]
    /\ delivered' = [delivered EXCEPT ![n] = Append(@, message)]
    /\ LET out == broadcast_to_all_servers(
                      n, ring[n].ring_members,
                      create_forward_message(message, n))
       IN  /\ net' = send_all(net, n, out)
           /\ last' = [op |-> "distribute_message", node |-> n,
                       msg |-> message, out |-> out]

\* Variant of _forward_to_leader that, with no leader known, falls back to
\* the first member of the view instead of returning.
forward_to_leader_first_member(self, r, message) ==
    LET leader == get_leader(r)
    IN  IF leader = self THEN <<>>
        ELSE <<[dst |-> IF leader = None
                        THEN Head(r.ring_members).server_id
                        ELSE leader,
                msg |-> create_forward_message(message, self)]>>

\* MessageHandler._forward_to_leader: the records sent
forward_to_leader(self, r, message) ==
    LET leader == get_leader(r)
    IN  IF leader = None \/ leader = self THEN <<>>
        ELSE <<[dst |-> leader,
                msg |-> create_forward_message(message, self)]>>

\* Server._on_client_message / MessageHandler.handle_client_message: a
\* client of server n submits a chat message.
ClientMessage(n) ==
    /\ phase[n] = "ACTIVE"
    /\ sent < MaxMessages
    /\ sent' = sent + 1
    /\ LET message == chat_message(sent + 1)
       IN  IF is_leader(ring[n], n)
           THEN distribute_message(n, message)
           ELSE LET out == forward_to_leader(n, ring[n], message)
                IN  /\ net' = send_all(net, n, out)
                    /\ last' = [op |-> "forward_to_leader", node |-> n,
                                msg |-> message, out |-> out]
                    /\ UNCHANGED <<message_history, delivered>>
    /\ UNCHANGED <<ring, election, phase, retry, discovered_servers,
                   last_heartbeat_received, hb_done, crashes,
                   client_vars, timer_thread>>

\* Server._handle_server_message for a FORWARD_MESSAGE record: the first
\* branch that tests FORWARD_MESSAGE calls handle_forwarded_message; the
\* later branch that would call handle_distributed_message is never taken.
HandleForward(s, d) ==
    /\ Listening(d)
    /\ net[<<s, d>>] # <<>>
    /\ Head(net[<<s, d>>]).type = "FORWARD_MESSAGE"
    /\ sent' = sent
    /\ LET message == Head(net[<<s, d>>])
           rest == [net EXCEPT ![<<s, d>>] = Tail(@)]
       IN  IF is_leader(ring[d], d)
           THEN /\ message_history' =
                       [message_history EXCEPT
                           ![d] = add_to_history(@, message.original_message)]
                /\ delivered' =
                       [delivered EXCEPT
                           ![d] = Append(@, message.original_message)]
                /\ LET out == broadcast_to_all_servers(
                                  d, ring[d].ring_members,
                                  create_forward_message(
                                      message.original_message, d))
                   IN  /\ net' = send_all(rest, d, out)
                       /\ last' = [op |-> "handle_forwarded_message",
                                   node |-> d, msg |-> message, out |-> out]
           ELSE /\ net' = rest
                /\ last' = [op |-> "handle_forwarded_message", node |-> d,
                            msg |-> message, out |-> <<>>]
                /\ UNCHANGED <<message_history, delivered>>
    /\ UNCHANGED <<ring, election, phase, retry, discovered_servers,
                   last_heartbeat_received, hb_done, crashes,
                   client_vars, timer_thread>>

----------------------------------------------------------------------------
(* SpecRing: one ring manager driven by arbitrary add / remove /           *)
(* set_leader calls.  The own id of the manager under test is any node;    *)
(* the managers of the other nodes stay as constructed.                    *)

OthersUntouched(n) == \A m \in Nodes \ {n} : ring[m] = RingManager

InitRing ==
    /\ ring = [n \in Nodes |-> RingManager]
    /\ election = [n \in Nodes |-> ElectionService]
    /\ phase = [n \in Nodes |-> "STARTING"]
    /\ net = [c \in Nodes \X Nodes |-> <<>>]
    /\ retry = [n \in Nodes |-> <<>>]
    /\ discovered_servers = [n \in Nodes |-> {}]
    /\ last_heartbeat_received = [n \in Nodes |-> [p \in Nodes |-> None]]
    /\ hb_done = {}
    /\ crashes = 0
    /\ message_history = [n \in Nodes |-> <<>>]
    /\ delivered = [n \in Nodes |-> <<>>]
    /\ sent = 0
    /\ clients = [n \in Nodes |-> <<>>]
    /\ conn = [c \in Clients |-> NoConnection]
    /\ timer_thread = [n \in Nodes |-> "none"]
    /\ last = [op |-> "init"]

CallAddServer(n, id, ip, port, flag) ==
    /\ OthersUntouched(n)
    /\ ring' = [ring EXCEPT ![n] = add_server(ring[n], n, id, ip, port, flag)]
    /\ last' = [op |-> "add_server", node |-> n, server_id |-> id,
                ip |-> ip, port |-> port, is_leader |-> flag,
                known |-> id \in keys(ring[n])]
    /\ UNCHANGED cluster_vars

CallRemoveServer(n, id) ==
    /\ OthersUntouched(n)
    /\ ring' = [ring EXCEPT ![n] = remove_server(ring[n], n, id)]
    /\ last' = [op |-> "remove_server", node |-> n, server_id |-> id,
                known |-> id \in keys(ring[n])]
    /\ UNCHANGED cluster_vars

CallSetLeader(n, id) ==
    /\ OthersUntouched(n)
    /\ ring' = [ring EXCEPT ![n] = set_leader(ring[n], id)]
    /\ last' = [op |-> "set_leader", node |-> n, server_id |-> id,
                known |-> id \in keys(ring[n]),
                again |-> /\ last.op = "set_leader"
                          /\ last.node = n
                          /\ last.server_id = id]
    /\ UNCHANGED cluster_vars

NextRing ==
    \/ \E n \in Nodes, id \in Nodes, a \in Addrs, flag \in BOOLEAN :
          CallAddServer(n, id, a[1], a[2], flag)
    \/ \E n \in Nodes, id \in Nodes : CallRemoveServer(n, id)
    \/ \E n \in Nodes, id \in Nodes : CallSetLeader(n, id)

SpecRing == InitRing /\ [][NextRing]_vars

----------------------------------------------------------------------------
(* SpecElection: a crash-free cluster with a fixed membership.  The run    *)
(* starts when the servers of a member set M have added themselves and     *)
(* every other member to their rings (Server.start steps 1-5 and the       *)
(* discovery callbacks) and are about to take the initial election         *)
(* decision; the servers outside M are never started.                      *)

RECURSIVE add_all(_, _, _)
\* add_server for every id of the sequence ids, with its announced address
add_all(r, own_server_id, ids) ==
    IF ids = <<>> THEN r
    ELSE add_all(add_server(r, own_server_id, Head(ids), IpOf(Head(ids)),
                            PortOf(Head(ids)), FALSE),
                 own_server_id, Tail(ids))

\* The ring of server n once it has added itself and then discovered the
\* other members of M.
DiscoveredRing(n, M) == add_all(RingManager, n, <<n>> \o sorted(M \ {n}))

InitCluster(M) ==
    /\ ring = [n \in Nodes |->
                  IF n \in M THEN DiscoveredRing(n, M) ELSE RingManager]
    /\ election = [n \in Nodes |-> ElectionService]
    /\ phase = [n \in Nodes |->
                   IF n \in M THEN "DISCOVERING" ELSE "STARTING"]
    /\ net = [c \in Nodes \X Nodes |-> <<>>]
    /\ retry = [n \in Nodes |-> <<>>]
    /\ discovered_servers = [n \in Nodes |->
                                IF n \in M THEN M \ {n} ELSE {}]
    /\ last_heartbeat_received = [n \in Nodes |-> [p \in Nodes |-> None]]
    /\ hb_done = {}
    /\ crashes = 0
    /\ message_history = [n \in Nodes |-> <<>>]
    /\ delivered = [n \in Nodes |-> <<>>]
    /\ sent = 0
    /\ clients = [n \in Nodes |-> <<>>]
    /\ conn = [c \in Clients |-> NoConnection]
    /\ timer_thread = [n \in Nodes |-> "none"]
    /\ last = [op |-> "init"]

InitElection == \E M \in SUBSET Nodes \ {{}} : InitCluster(M)

NextElection ==
    \/ \E n \in Nodes : StartDecide(n)
    \/ \E s \in Nodes, d \in Nodes : HandleElection(s, d)
    \/ \E s \in Nodes, d \in Nodes : HandleAnnouncement(s, d)
    \/ \E n \in Nodes : TimerExpire(n)

SpecElection == InitElection /\ [][NextElection]_vars

\* The election threads keep running and delivered records are handled.
FairElection ==
    /\ \A n \in Nodes : WF_vars(StartDecide(n))
    /\ \A n \in Nodes : WF_vars(TimerExpire(n))
    /\ \A s \in Nodes, d \in Nodes : WF_vars(HandleElection(s, d))
    /\ \A s \in Nodes, d \in Nodes : WF_vars(HandleAnnouncement(s, d))

SpecElectionFair == SpecElection /\ FairElection

----------------------------------------------------------------------------
(* SpecOnce: the elections of a crash-free ring whose servers know each    *)
(* other, up to the first expiry of an election timer: as long as a single *)
(* server has originated an election, one election is under way.           *)

InitOnce == \E M \in SUBSET Nodes \ {{}} : InitCluster(M)

NextOnce ==
    \/ \E n \in Nodes : StartDecide(n)
    \/ \E s \in Nodes, d \in Nodes : HandleElection(s, d)
    \/ \E s \in Nodes, d \in Nodes : HandleAnnouncement(s, d)

SpecOnce == InitOnce /\ [][NextOnce]_vars

----------------------------------------------------------------------------
(* SpecTimer: the elections of a cluster of one or two servers, with the   *)
(* election timer firing at any time while it is armed, and its handler    *)
(* running step by step between the handling of the election records.      *)

InitTimer == \E M \in (SUBSET Nodes) \ {{}, Nodes} : InitCluster(M)

NextTimer ==
    \/ \E n \in Nodes : StartDecide(n)
    \/ \E s \in Nodes, d \in Nodes : HandleElection(s, d)
    \/ \E s \in Nodes, d \in Nodes : HandleAnnouncement(s, d)
    \/ \E n \in Nodes : TimerFire(n)
    \/ \E n \in Nodes : TimerClear(n)
    \/ \E n \in Nodes : TimerRestart(n)

SpecTimer == InitTimer /\ [][NextTimer]_vars

----------------------------------------------------------------------------
(* SpecJoin: a crash-free cluster that a server joins.  The servers of     *)
(* JoinCluster have discovered each other; the third server starts at any  *)
(* time and the discoveries happen in any order while elections run.       *)

\* Server.start, steps 1-3: the TCP server listens, the server adds itself
\* to its ring and discovery starts.
StartServer(n) ==
    /\ phase[n] = "STARTING"
    /\ phase' = [phase EXCEPT ![n] = "DISCOVERING"]
    /\ Apply(n, Effect(add_server(ring[n], n, n, IpOf(n), PortOf(n), FALSE),
                       election[n], <<>>, <<>>), "start_server", None)
    /\ UNCHANGED <<net, retry, discovered_servers, last_heartbeat_received,
                   hb_done, crashes,
                   message_history, delivered, sent, client_vars,
                   timer_thread>>

\* Variant of _on_server_discovered without the test is_leader(self):
\* every server that adds a member starts an election.
on_server_discovered_any_role(self, r, e, server_id) ==
    start_election(self,
                   add_server(r, self, server_id, IpOf(server_id),
                              PortOf(server_id), FALSE),
                   e)

\* Server._on_server_discovered
on_server_discovered(self, r, e, server_id) ==
    LET r1 == add_server(r, self, server_id, IpOf(server_id),
                         PortOf(server_id), FALSE)
    IN  IF is_leader(r1, self) THEN start_election(self, r1, e)
        ELSE Effect(r1, e, <<>>, <<>>)

\* A _handle_discovery_message that takes every announcement for a new one.
handle_discovery_message_always_new(self, r, e, known, server_id) ==
    [eff |-> on_server_discovered(self, r, e, server_id), is_new |-> TRUE]

\* DiscoveryService._handle_discovery_message for a DISCOVERY_ANNOUNCE of
\* server_id; known is the key set of discovered_servers.  The entry of
\* server_id is written in both cases (last_seen is refreshed); only a new
\* id calls on_server_discovered.
handle_discovery_message(self, r, e, known, server_id) ==
    LET is_new == server_id \notin known
    IN  IF is_new
        THEN [eff |-> on_server_discovered(self, r, e, server_id),
              is_new |-> TRUE]
        ELSE [eff |-> Effect(r, e, <<>>, <<>>), is_new |-> FALSE]

\* DiscoveryService._listen_loop: server n receives a DISCOVERY_ANNOUNCE of
\* server m (its own announcements are ignored).
HandleDiscovery(n, m) ==
    /\ n # m
    /\ Listening(n)
    /\ Listening(m)
    /\ LET h == handle_discovery_message(n, ring[n], election[n],
                                         discovered_servers[n], m)
       IN  /\ ring' = [ring EXCEPT ![n] = h.eff.ring]
           /\ election' = [election EXCEPT ![n] = h.eff.el]
           /\ net' = send_all(net, n, h.eff.out)
           /\ last' = [op |-> "handle_discovery_message", node |-> n,
                       msg |-> [type |-> "DISCOVERY_ANNOUNCE",
                                server_id |-> m],
                       out |-> h.eff.out, cb |-> h.eff.cb,
                       was_in_progress |-> election[n].election_in_progress,
                       on_server_discovered |-> h.is_new]
    /\ discovered_servers' = [discovered_servers EXCEPT ![n] = @ \cup {m}]
    /\ UNCHANGED <<phase, retry, last_heartbeat_received, hb_done, crashes,
                   message_history, delivered, sent, client_vars,
                   timer_thread>>

\* The servers of JoinCluster run the discovery phase together; the third
\* server is started later.
JoinCluster == {1, 2}

InitJoin == InitCluster(JoinCluster)

\* The steps of the first ELECTION_TIMEOUT seconds: no election timer
\* fires yet.  Only the first announcement of a server is taken: a repeated
\* one changes no variable of the servers (SpecDiscovery).
NextJoin ==
    \/ \E n \in Nodes : StartServer(n)
    \/ \E n \in Nodes, m \in Nodes :
          m \notin discovered_servers[n] /\ HandleDiscovery(n, m)
    \/ \E n \in Nodes : StartDecide(n)
    \/ \E s \in Nodes, d \in Nodes : HandleElection(s, d)
    \/ \E n \in Nodes : RetryElection(n)
    \/ \E s \in Nodes, d \in Nodes : HandleAnnouncement(s, d)

SpecJoin == InitJoin /\ [][NextJoin]_vars


----------------------------------------------------------------------------
(* SpecSolo: clusters of one or two servers with the failure detector      *)
(* running; at most MaxCrashes servers crash, at any time.                 *)

NextSolo ==
    \/ \E n \in Nodes : StartDecide(n)
    \/ \E s \in Nodes, d \in Nodes : HandleElection(s, d)
    \/ \E n \in Nodes : RetryElection(n)
    \/ \E s \in Nodes, d \in Nodes : HandleAnnouncement(s, d)
    \/ \E n \in Nodes : TimerExpire(n)
    \/ \E n \in Nodes : HeartbeatLoop(n)
    \/ \E s \in Nodes, d \in Nodes : HandleHeartbeat(s, d)
    \/ Tick
    \/ \E n \in Nodes : Crash(n)

InitSolo == \E M \in (SUBSET Nodes) \ {{}, Nodes} : InitCluster(M)

SpecSolo == InitSolo /\ [][NextSolo]_vars

----------------------------------------------------------------------------
(* SpecCrash: the three servers run with an agreed leader, the state in    *)
(* which the elections of SpecElection end, and the failure detector       *)
(* runs; at most MaxCrashes servers crash.  A hop of an election record    *)
(* (0.5 s) is short against the heartbeat interval: the failure detector   *)
(* steps and the crashes are taken while the election traffic is at rest.  *)

Max(S) == CHOOSE x \in S : \A y \in S : y <= x

\* The cluster of the servers M once its initial election is over.
InitAgreed(M) ==
    /\ ring = [n \in Nodes |->
                  IF n \in M THEN set_leader(DiscoveredRing(n, M), Max(M))
                  ELSE RingManager]
    /\ election = [n \in Nodes |-> ElectionService]
    /\ phase = [n \in Nodes |-> IF n \in M THEN "ACTIVE" ELSE "STARTING"]
    /\ net = [c \in Nodes \X Nodes |-> <<>>]
    /\ retry = [n \in Nodes |-> <<>>]
    /\ discovered_servers = [n \in Nodes |->
                                IF n \in M THEN M \ {n} ELSE {}]
    /\ last_heartbeat_received = [n \in Nodes |-> [p \in Nodes |-> None]]
    /\ hb_done = {}
    /\ crashes = 0
    /\ message_history = [n \in Nodes |-> <<>>]
    /\ delivered = [n \in Nodes |-> <<>>]
    /\ sent = 0
    /\ clients = [n \in Nodes |-> <<>>]
    /\ conn = [c \in Clients |-> NoConnection]
    /\ timer_thread = [n \in Nodes |-> "none"]
    /\ last = [op |-> "init"]

InitCrash == InitAgreed(Nodes)

NextCrash ==
    \/ \E s \in Nodes, d \in Nodes : HandleElection(s, d)
    \/ \E n \in Nodes : RetryElection(n)
    \/ \E s \in Nodes, d \in Nodes : HandleAnnouncement(s, d)
    \/ \E n \in Nodes : TimerExpire(n)
    \/ \E n \in Nodes : Quiet /\ HeartbeatLoop(n)
    \/ \E s \in Nodes, d \in Nodes : Quiet /\ HandleHeartbeat(s, d)
    \/ Quiet /\ Tick
    \/ \E n \in Nodes : Quiet /\ Crash(n)

SpecCrash == InitCrash /\ [][NextCrash]_vars

----------------------------------------------------------------------------
(* SpecRejoin: the ring of SpecCrash with the discovery service running:   *)
(* every running server keeps announcing itself, and the announcements of  *)
(* servers that a receiver no longer has in its ring are handled.          *)

InitRejoin == InitAgreed(Nodes)

NextRejoin ==
    \/ NextCrash
    \/ \E n \in Nodes, m \in Nodes :
          /\ m \notin keys(ring[n])
          /\ HandleDiscovery(n, m)

SpecRejoin == InitRejoin /\ [][NextRejoin]_vars

----------------------------------------------------------------------------
(* SpecDiscovery: a cluster with an agreed leader whose servers keep       *)
(* announcing themselves every DISCOVERY_BROADCAST_INTERVAL seconds, while *)
(* the servers outside the cluster are started and discovered.             *)

InitDiscovery == \E M \in (SUBSET Nodes) \ {{}} : InitAgreed(M)

NextDiscovery ==
    \/ \E n \in Nodes : StartServer(n)
    \/ \E n \in Nodes, m \in Nodes : HandleDiscovery(n, m)
    \/ \E s \in Nodes, d \in Nodes : HandleElection(s, d)
    \/ \E n \in Nodes : RetryElection(n)
    \/ \E s \in Nodes, d \in Nodes : HandleAnnouncement(s, d)

SpecDiscovery == InitDiscovery /\ [][NextDiscovery]_vars

----------------------------------------------------------------------------
(* SpecChat: a cluster with stable membership and an agreed leader whose   *)
(* clients submit chat messages.                                           *)

InitChat == \E M \in (SUBSET Nodes) \ {{}} : InitAgreed(M)

NextChat ==
    \/ \E n \in Nodes : ClientMessage(n)
    \/ \E s \in Nodes, d \in Nodes : HandleForward(s, d)

SpecChat == InitChat /\ [][NextChat]_vars

----------------------------------------------------------------------------
(* SpecHistory: the history buffer of every MessageHandler, filled to just *)
(* below MAX_MESSAGE_HISTORY, is given further messages.                   *)

\* A buffer that has taken the messages 1..k.
filled_history(k) == [i \in 1..k |-> chat_message(i)]

InitHistory ==
    /\ InitAgreed(Nodes)!1
    /\ InitAgreed(Nodes)!2
    /\ InitAgreed(Nodes)!3
    /\ InitAgreed(Nodes)!4
    /\ InitAgreed(Nodes)!5
    /\ InitAgreed(Nodes)!6
    /\ InitAgreed(Nodes)!7
    /\ InitAgreed(Nodes)!8
    /\ InitAgreed(Nodes)!9
    /\ message_history =
           [n \in Nodes |->
               filled_history(MAX_MESSAGE_HISTORY - HistoryMargin)]
    /\ delivered = [n \in Nodes |-> <<>>]
    /\ sent = 0
    /\ clients = [n \in Nodes |-> <<>>]
    /\ conn = [c \in Clients |-> NoConnection]
    /\ timer_thread = [n \in Nodes |-> "none"]
    /\ last = [op |-> "init"]

\* MessageHandler._add_to_history(message) on server n; the message is the
\* next one to arrive at n.
CallAddToHistory(n) ==
    LET history == message_history[n]
        message == chat_message(history[Len(history)].id + 1)
    IN  /\ message.id <= MAX_MESSAGE_HISTORY + MaxOverflow
        /\ message_history' =
               [message_history EXCEPT ![n] = add_to_history(history, message)]
        /\ last' = [op |-> "add_to_history", node |-> n, msg |-> message,
                    overflow |-> Len(history) = MAX_MESSAGE_HISTORY]
        /\ UNCHANGED <<ring, election, phase, net, retry, discovered_servers,
                       last_heartbeat_received, hb_done, crashes, delivered,
                       sent, client_vars, timer_thread>>

NextHistory == \E n \in Nodes : CallAddToHistory(n)

SpecHistory == InitHistory /\ [][NextHistory]_vars

----------------------------------------------------------------------------
(* Client sessions (server.py, client_handler.py).  A record is one JSON   *)
(* document followed by a newline; a recv returns everything that has      *)
(* arrived on the connection.                                              *)

\* protocol.create_client_join
create_client_join(client_id) ==
    [type |-> "CLIENT_JOIN", client_id |-> client_id]

\* protocol.create_client_leave
create_client_leave(client_id) ==
    [type |-> "CLIENT_LEAVE", client_id |-> client_id]

\* The result None of deserialize_message, as a record without a type.
NoMessage == [type |-> "None"]

\* protocol.deserialize_message on the bytes of one recv: json.loads takes
\* one document (trailing white space allowed) and fails on more.
deserialize_message(data) == IF Len(data) = 1 THEN data[1] ELSE NoMessage

\* history[:50]
history_head(history) ==
    SubSeq(history, 1,
           IF Len(history) > HISTORY_SLICE THEN HISTORY_SLICE
           ELSE Len(history))

\* history[-50:]
history_tail(history) ==
    SubSeq(history,
           IF Len(history) > HISTORY_SLICE
           THEN Len(history) - HISTORY_SLICE + 1 ELSE 1,
           Len(history))

\* self.clients[client_id] = client_conn on the dict kept in insertion order
put_client(table, client_id) ==
    IF client_id \in SeqToSet(table) THEN table ELSE Append(table, client_id)

\* del self.clients[client_id]
del_client(table, client_id) == SelectSeq(table, LAMBDA x : x # client_id)

\* The USER_JOINED / USER_LEFT record of Server._on_client_joined and
\* Server._on_client_left
notification(notification_type, client_id) ==
    [type |-> "NOTIFICATION", notification_type |-> notification_type,
     username |-> client_id]

\* The records Server._on_client_joined writes to the joining client after
\* the notification: the history, when there is one.
history_records(history) ==
    IF history # <<>>
    THEN <<[type |-> "MESSAGE_HISTORY", messages |-> history_tail(history)]>>
    ELSE <<>>

\* ClientConnection.send on every client of the table: the sets of clients
\* whose sendall can raise.  It raises on a socket the server has closed
\* (ClientConnection.close), it raises or not on a socket the client has
\* closed, and it returns on an open one.
send_fails(cn, table) ==
    {disconnected \in
        SUBSET {c \in SeqToSet(table) : cn[c].closed_by # "nobody"} :
            \A c \in SeqToSet(table) :
                cn[c].closed_by = "server" => c \in disconnected}

\* A broadcast_to_all_clients that keeps the clients whose send failed.
del_clients_none(table, disconnected) == table

\* ClientHandler.broadcast_to_all_clients, second loop:
\* del self.clients[client_id] for every client whose send failed
del_clients(table, disconnected) ==
    SelectSeq(table, LAMBDA x : x \notin disconnected)

\* ClientHandler.broadcast_to_all_clients, first loop: the record is written
\* to every client of the table; it arrives where the socket is open.
broadcast_to_all_clients(cn, table, record) ==
    [c \in Clients |->
        IF c \in SeqToSet(table) /\ cn[c].closed_by = "nobody"
        THEN [cn[c] EXCEPT !.down = Append(@, record)]
        ELSE cn[c]]

\* A client opens a TCP connection to server n (Server._accept_connections
\* starts a _handle_new_connection thread for it).
ClientConnect(c, n) ==
    /\ conn[c].stage = "none"
    /\ Listening(n)
    /\ conn' = [conn EXCEPT ![c] = [NoConnection EXCEPT !.server = n,
                                                        !.stage = "new"]]
    /\ last' = [op |-> "connect", client |-> c, node |-> n]
    /\ UNCHANGED <<ring, election, phase, net, retry, discovered_servers,
                   last_heartbeat_received, hb_done, crashes,
                   message_history, delivered, sent, clients, timer_thread>>

\* Client._send_join: the client writes a CLIENT_JOIN record.
ClientSendJoin(c) ==
    /\ conn[c].stage \in {"new", "handed", "session"}
    /\ conn[c].written < MaxJoins
    /\ conn' = [conn EXCEPT ![c].up = Append(@, create_client_join(c)),
                            ![c].written = @ + 1]
    /\ last' = [op |-> "send_join", client |-> c, node |-> conn[c].server]
    /\ UNCHANGED <<ring, election, phase, net, retry, discovered_servers,
                   last_heartbeat_received, hb_done, crashes,
                   message_history, delivered, sent, clients, timer_thread>>

\* Server._handle_new_connection on the connection of client c: the recv
\* returns what has arrived, or times out after 5 s when nothing has.  A
\* CLIENT_JOIN is written back to the connection and the connection is
\* handed to ClientHandler.add_client.
HandleNewConnection(c) ==
    /\ conn[c].stage = "new"
    /\ LET data == conn[c].up
           message == deserialize_message(data)
           is_join == /\ data # <<>>
                      /\ message # NoMessage
                      /\ message.type = "CLIENT_JOIN"
       IN  /\ conn' = [conn EXCEPT
                          ![c] = IF is_join
                                 THEN [@ EXCEPT !.up = <<>>,
                                                !.down = @ \o data,
                                                !.stage = "handed"]
                                 ELSE [@ EXCEPT !.up = <<>>,
                                                !.stage = "closed",
                                                !.closed_by = "server"]]
           /\ last' = [op |-> "handle_new_connection", client |-> c,
                       node |-> conn[c].server, data |-> data,
                       handed |-> is_join]
    /\ UNCHANGED <<ring, election, phase, net, retry, discovered_servers,
                   last_heartbeat_received, hb_done, crashes,
                   message_history, delivered, sent, clients, timer_thread>>

\* ClientHandler._handle_client up to its receive loop: the recv returns
\* what has arrived since, or times out after 10 s when nothing has.  On a
\* CLIENT_JOIN the client is stored, on_client_joined (Server.
\* _on_client_joined) is called, and then the WELCOME is written.
HandleClient(c) ==
    /\ conn[c].stage = "handed"
    /\ LET n == conn[c].server
           data == conn[c].up
           message == deserialize_message(data)
           is_join == /\ data # <<>>
                      /\ message # NoMessage
                      /\ message.type = "CLIENT_JOIN"
           table == put_client(clients[n], c)
           joined == broadcast_to_all_clients(
                         [conn EXCEPT ![c].up = <<>>, ![c].stage = "session"],
                         table, notification("USER_JOINED", c))
           welcome == [type |-> "WELCOME", server_id |-> n]
           records == history_records(message_history[n]) \o <<welcome>>
       IN  /\ IF is_join
              THEN \E disconnected \in send_fails(conn, table) :
                      /\ clients' = [clients EXCEPT
                                        ![n] = del_clients(table,
                                                           disconnected)]
                      /\ conn' = [joined EXCEPT ![c].down = @ \o records]
              ELSE /\ clients' = clients
                   /\ conn' = [conn EXCEPT ![c].up = <<>>,
                                           ![c].stage = "closed",
                                           ![c].closed_by = "server"]
           /\ last' = [op |-> "handle_client", client |-> c, node |-> n,
                       data |-> data, registered |-> is_join]
    /\ UNCHANGED <<ring, election, phase, net, retry, discovered_servers,
                   last_heartbeat_received, hb_done, crashes,
                   message_history, delivered, sent, timer_thread>>

\* The receive loop of ClientHandler._handle_client takes the next line
\* that has arrived and passes it to _handle_client_message, which ignores
\* a CLIENT_JOIN.  A CHAT_MESSAGE goes through Server._on_client_message to
\* MessageHandler.handle_client_message in the same thread: the leader
\* enters _distribute_message and appends the message to its history
\* (under history_lock), any other server forwards it to the leader.
SessionReceive(c) ==
    /\ conn[c].stage = "session"
    /\ conn[c].pc = "recv"
    /\ conn[c].up # <<>>
    /\ LET n == conn[c].server
           message == Head(conn[c].up)
           read == [conn EXCEPT ![c].up = Tail(@)]
       IN  /\ last' = [op |-> "handle_client_message", client |-> c,
                       node |-> n, msg |-> message]
           /\ IF message.type = "CLIENT_LEAVE"
              THEN /\ conn' = [read EXCEPT ![c].closed_by = "server"]
                   /\ UNCHANGED <<net, message_history>>
              ELSE IF message.type # "CHAT_MESSAGE"
              THEN /\ conn' = read
                   /\ UNCHANGED <<net, message_history>>
              ELSE IF is_leader(ring[n], n)
              THEN /\ message_history' =
                          [message_history EXCEPT
                              ![n] = add_to_history(@, message)]
                   /\ conn' = [read EXCEPT ![c].pc = "on_message_to_clients",
                                           ![c].message = message]
                   /\ net' = net
              ELSE /\ net' = send_all(net, n,
                                      forward_to_leader(n, ring[n], message))
                   /\ conn' = read
                   /\ message_history' = message_history
    /\ UNCHANGED <<ring, election, phase, retry, discovered_servers,
                   last_heartbeat_received, hb_done, crashes, delivered,
                   sent, clients, timer_thread>>

\* _distribute_message, second step, in the thread of the connection of c:
\* on_message_to_clients writes the message to every stored client
\* (broadcast_to_all_clients, under clients_lock).
OnMessageToClients(c) ==
    /\ conn[c].pc = "on_message_to_clients"
    /\ LET n == conn[c].server
       IN  /\ conn' = [broadcast_to_all_clients(conn, clients[n],
                                                conn[c].message)
                          EXCEPT ![c].pc = "on_broadcast_to_servers"]
           /\ \E disconnected \in send_fails(conn, clients[n]) :
                  clients' = [clients EXCEPT
                                 ![n] = del_clients(@, disconnected)]
           /\ delivered' = [delivered EXCEPT
                               ![n] = Append(@, conn[c].message)]
           /\ last' = [op |-> "on_message_to_clients", client |-> c,
                       node |-> n, msg |-> conn[c].message]
    /\ UNCHANGED <<ring, election, phase, net, retry, discovered_servers,
                   last_heartbeat_received, hb_done, crashes,
                   message_history, sent, timer_thread>>

\* _distribute_message, third step: on_broadcast_to_servers sends the
\* FORWARD_MESSAGE to the other servers; the thread returns to its recv.
OnBroadcastToServers(c) ==
    /\ conn[c].pc = "on_broadcast_to_servers"
    /\ LET n == conn[c].server
           out == broadcast_to_all_servers(
                      n, ring[n].ring_members,
                      create_forward_message(conn[c].message, n))
       IN  /\ net' = send_all(net, n, out)
           /\ conn' = [conn EXCEPT ![c].pc = "recv",
                                   ![c].message = NoConnection.message]
           /\ last' = [op |-> "on_broadcast_to_servers", client |-> c,
                       node |-> n, msg |-> conn[c].message, out |-> out]
    /\ UNCHANGED <<ring, election, phase, retry, discovered_servers,
                   last_heartbeat_received, hb_done, crashes,
                   message_history, delivered, sent, clients, timer_thread>>

\* Client._send_chat_message: a client with a session writes a chat
\* message.
ClientSendChat(c) ==
    /\ conn[c].stage = "session"
    /\ sent < MaxMessages
    /\ sent' = sent + 1
    /\ conn' = [conn EXCEPT ![c].up = Append(@, chat_message(sent + 1))]
    /\ last' = [op |-> "send_chat_message", client |-> c,
                node |-> conn[c].server, msg |-> chat_message(sent + 1)]
    /\ UNCHANGED <<ring, election, phase, net, retry, discovered_servers,
                   last_heartbeat_received, hb_done, crashes,
                   message_history, delivered, clients, timer_thread>>

\* Client.stop on a session: the client writes its CLIENT_LEAVE
\* (_send_leave).
ClientSendLeave(c) ==
    /\ conn[c].stage = "session"
    /\ conn[c].closed_by = "nobody"
    /\ create_client_leave(c) \notin SeqToSet(conn[c].up)
    /\ conn' = [conn EXCEPT ![c].up = Append(@, create_client_leave(c))]
    /\ last' = [op |-> "send_leave", client |-> c, node |-> conn[c].server]
    /\ UNCHANGED <<ring, election, phase, net, retry, discovered_servers,
                   last_heartbeat_received, hb_done, crashes,
                   message_history, delivered, sent, clients, timer_thread>>

\* ConnectionManager.disconnect on a session: the client closes its socket
\* while the server thread of the connection is not in its recv, or before
\* that recv has returned.
ClientClose(c) ==
    /\ conn[c].stage = "session"
    /\ conn[c].closed_by = "nobody"
    /\ conn' = [conn EXCEPT ![c].closed_by = "client"]
    /\ last' = [op |-> "close", client |-> c, node |-> conn[c].server]
    /\ UNCHANGED <<ring, election, phase, net, retry, discovered_servers,
                   last_heartbeat_received, hb_done, crashes,
                   message_history, delivered, sent, clients, timer_thread>>

\* The receive loop of the server thread ends: the client closes its
\* connection and the recv returns no data, or the recv returns no data on
\* a connection closed before, or the loop finds connected False after
\* ClientConnection.close.  The finally block deletes a stored client and
\* on_client_left (Server._on_client_left) writes USER_LEFT to the clients
\* that remain (broadcast_to_all_clients).
ClientDisconnect(c) ==
    /\ conn[c].stage \in {"new", "handed", "session"}
    /\ conn[c].pc = "recv"
    /\ LET n == conn[c].server
           table == del_client(clients[n], c)
           closed == [conn EXCEPT ![c].stage = "closed",
                                  ![c].closed_by =
                                      IF @ = "nobody" THEN "client" ELSE @,
                                  ![c].up = <<>>]
       IN  IF conn[c].stage = "session"
           THEN \E disconnected \in send_fails(closed, table) :
                   /\ clients' = [clients EXCEPT
                                     ![n] = del_clients(table, disconnected)]
                   /\ conn' = broadcast_to_all_clients(
                                  closed, table,
                                  notification("USER_LEFT", c))
                   /\ last' = [op |-> "disconnect", client |-> c,
                               node |-> n, on_client_left |-> <<c>>]
           ELSE /\ clients' = clients
                /\ conn' = closed
                /\ last' = [op |-> "disconnect", client |-> c,
                            node |-> n, on_client_left |-> <<>>]
    /\ UNCHANGED <<ring, election, phase, net, retry, discovered_servers,
                   last_heartbeat_received, hb_done, crashes,
                   message_history, delivered, sent, timer_thread>>

----------------------------------------------------------------------------
(* SpecClient: clients connect to the servers of a cluster with an agreed  *)
(* leader whose history buffer holds the messages accepted so far.         *)

\* The history lengths the leader starts with: none, and lengths around
\* HISTORY_SLICE.
HistorySizes ==
    {0} \cup ((HISTORY_SLICE - HistoryMargin)..(HISTORY_SLICE + MaxOverflow))

InitClient ==
    /\ InitAgreed(Nodes)!1
    /\ InitAgreed(Nodes)!2
    /\ InitAgreed(Nodes)!3
    /\ InitAgreed(Nodes)!4
    /\ InitAgreed(Nodes)!5
    /\ InitAgreed(Nodes)!6
    /\ InitAgreed(Nodes)!7
    /\ InitAgreed(Nodes)!8
    /\ InitAgreed(Nodes)!9
    /\ \E k \in HistorySizes :
          message_history =
              [n \in Nodes |->
                  IF n = Max(Nodes) THEN filled_history(k) ELSE <<>>]
    /\ delivered = [n \in Nodes |-> <<>>]
    /\ sent = 0
    /\ clients = [n \in Nodes |-> <<>>]
    /\ conn = [c \in Clients |-> NoConnection]
    /\ timer_thread = [n \in Nodes |-> "none"]
    /\ last = [op |-> "init"]

NextClient ==
    \/ \E c \in Clients, n \in Nodes : ClientConnect(c, n)
    \/ \E c \in Clients : ClientSendJoin(c)
    \/ \E c \in Clients : HandleNewConnection(c)
    \/ \E c \in Clients : HandleClient(c)
    \/ \E c \in Clients : SessionReceive(c)
    \/ \E c \in Clients : ClientDisconnect(c)

SpecClient == InitClient /\ [][NextClient]_vars

----------------------------------------------------------------------------
(* SpecOrder: the clients of SpecClient also write chat messages; every    *)
(* connection has its own server thread, and the threads of the leader     *)
(* run _distribute_message side by side.                                   *)

InitOrder == InitAgreed(Nodes)

NextOrder ==
    \/ NextClient
    \/ \E c \in Clients : ClientSendChat(c)
    \/ \E c \in Clients : OnMessageToClients(c)
    \/ \E c \in Clients : OnBroadcastToServers(c)
    \/ \E s \in Nodes, d \in Nodes : HandleForward(s, d)

SpecOrder == InitOrder /\ [][NextOrder]_vars

----------------------------------------------------------------------------
(* SpecSplit: one server runs alone as leader, the others start and the   *)
(* servers discover each other, with every election record handled, while *)
(* one chat message is submitted.  A server stops handling the            *)
(* FORWARD_MESSAGE records of a message it has written to its clients     *)
(* MaxDeliveries times.                                                   *)

InitSplit == \E n \in Nodes : InitAgreed({n})

\* How many times server n has written message to its local clients.
Deliveries(n, message) ==
    Cardinality({i \in 1..Len(delivered[n]) : delivered[n][i] = message})

NextSplit ==
    \/ \E n \in Nodes : StartServer(n)
    \/ \E n \in Nodes, m \in Nodes : HandleDiscovery(n, m)
    \/ \E s \in Nodes, d \in Nodes : HandleElection(s, d)
    \/ \E n \in Nodes : RetryElection(n)
    \/ \E s \in Nodes, d \in Nodes : HandleAnnouncement(s, d)
    \/ \E n \in Nodes : (sent = 0 /\ ClientMessage(n))
    \/ \E s \in Nodes, d \in Nodes :
          /\ net[<<s, d>>] # <<>>
          /\ Head(net[<<s, d>>]).type = "FORWARD_MESSAGE"
          /\ Deliveries(d, Head(net[<<s, d>>]).original_message)
                < MaxDeliveries
          /\ HandleForward(s, d)

SpecSplit == InitSplit /\ [][NextSplit]_vars

----------------------------------------------------------------------------
(* Properties.                                                             *)

\* The servers that are running
Live == {n \in Nodes : Listening(n)}

Idle(n) == ~election[n].election_in_progress

\* An ELECTION or LEADER_ANNOUNCEMENT record is on its way or parked
ElectionTraffic ==
    \/ InFlight({"ELECTION", "LEADER_ANNOUNCEMENT"})
    \/ \E n \in Nodes : retry[n] # <<>>

\* How often x occurs in the sequence s
Count(s, x) == Cardinality({i \in 1..Len(s) : s[i] = x})

NoElectionRecord(out) ==
    \A i \in 1..Len(out) :
        out[i].msg.type \notin {"ELECTION", "LEADER_ANNOUNCEMENT"}

\* C1: with stable membership and an agreed leader, once the FORWARD_MESSAGE
\* records have been handled, every chat message the leader accepted (it is
\* in the leader's history) has been delivered to the local clients of every
\* live server exactly once.
C1_DeliveredExactlyOnce ==
    ~InFlight({"FORWARD_MESSAGE"}) =>
        \A l \in Live : is_leader(ring[l], l) =>
            \A i \in 1..Len(message_history[l]) : \A n \in Live :
                Count(delivered[n], message_history[l][i]) = 1

\* At least two running servers past their election decision, whose views
\* hold exactly the running servers, no election in progress, no ELECTION
\* or LEADER_ANNOUNCEMENT record on its way.
Stable ==
    /\ Cardinality(Live) >= 2
    /\ \A n \in Live : phase[n] = "ACTIVE"
    /\ \A n \in Live : keys(ring[n]) = Live
    /\ \A n \in Live : Idle(n)
    /\ ~ElectionTraffic

\* C2: in a stable configuration, a member that a server's view marks as
\* leader is the greatest id of the membership.
C2_StableLeaderIsMax ==
    Stable => \A n \in Live : leaders(ring[n]) \subseteq {Max(Live)}

\* Every running server is idle, all views mark the same single leader and
\* exactly one server considers itself leader.
Agreed ==
    /\ \A n \in Live : Idle(n)
    /\ \E l \in Live : \A n \in Live : leaders(ring[n]) = {l}
    /\ Cardinality({n \in Live : is_leader(ring[n], n)}) = 1

\* C3: in a crash-free ring of two or more servers with identical views,
\* once some server has an election in progress the cluster eventually is
\* idle with one agreed leader.
C3_ElectionConverges ==
    (Cardinality(Live) >= 2 /\ \E n \in Live : ~Idle(n)) ~> Agreed

C3_Converged ==
    /\ Cardinality(Live) = Cardinality(Nodes)
    /\ last.op = "handle_leader_announcement"
    /\ Agreed

\* C4: after any sequence of add_server, remove_server and set_leader calls
\* at most one record of a view has is_leader = TRUE.
C4_AtMostOneLeader ==
    \A n \in Nodes : Cardinality(leaders(ring[n])) <= 1

\* C5: the LEADER_ANNOUNCEMENT of a completed election is handled exactly
\* once by every server other than the announcer: its traversal is not
\* continued by the announcer, and it ends at the announcer or at the
\* announcer's left neighbor, the last server of the ring.
C5_AnnouncementReachesAll ==
    last.op = "handle_leader_announcement" =>
        LET announcer == last.msg.announcer
        IN  /\ last.node = announcer => last.out = <<>>
            /\ last.out = <<>> =>
                   last.node \in {announcer, ring[announcer].left_neighbor}

\* The leader of InitCrash has crashed, both survivors have removed it and
\* are idle with no timer running, and no election record is on its way.
Settled ==
    /\ phase[Max(Nodes)] = "CRASHED"
    /\ \A n \in Nodes \ {Max(Nodes)} :
          /\ Max(Nodes) \notin keys(ring[n])
          /\ Idle(n)
          /\ ~election[n].election_timer
    /\ ~ElectionTraffic

\* C6: in the three-server ring with an agreed leader, after the leader has
\* crashed and the survivors have removed it and come to rest, both
\* survivors mark the greater surviving id as leader.
C6_SurvivorsElectGreater ==
    Settled =>
        \A n \in Nodes \ {Max(Nodes)} :
            leaders(ring[n]) = {Max(Nodes \ {Max(Nodes)})}

\* The last step was the crash handling of a heartbeat sweep that called
\* start_election when the server had no right neighbor left: the crashed
\* server handled last was marked leader and its removal emptied the ring.
SoloElection ==
    /\ last.op = "heartbeat_loop"
    /\ last.msg.crashed # <<>>
    /\ last.msg.crashed[Len(last.msg.crashed)] \in last.msg.was_leader
    /\ ring[last.node].right_neighbor = None

\* The last step was the initial election decision of a server alone in
\* its ring.
SoloStart == last.op = "start" /\ ring_size(ring[last.node]) = 1

\* C7: a server whose ring holds only itself becomes leader in its own view
\* and sends no ELECTION or LEADER_ANNOUNCEMENT record, at startup and when
\* start_election is called while it has no right neighbor.
C7_SoloBecomesLeader ==
    (SoloStart \/ SoloElection) =>
        /\ is_leader(ring[last.node], last.node)
        /\ NoElectionRecord(last.out)

C7_SoloAfterCrash == SoloElection /\ phase[last.node] = "ACTIVE"

\* The last step handled an ELECTION record that came back to its
\* originator.
OwnElectionMessage ==
    /\ last.op \in {"handle_election_message", "retry_election"}
    /\ last.msg.originator_id = last.node

\* C8: in a two-server ring an ELECTION record is back at its originator
\* after one hop to the peer and one hop back, and the originator completes
\* the election with the larger of the two ids.
C8_TwoNodeOneTraversal ==
    (Cardinality(Live) = 2 /\ OwnElectionMessage) =>
        /\ last.msg.hop_count = 1
        /\ last.msg.candidate_id = Max(Live)
        /\ last.cb = <<Max(Live)>>
        /\ leaders(ring[last.node]) = {Max(Live)}

C8_SmallerOriginatorElectsLarger ==
    /\ Cardinality(Live) = 2
    /\ OwnElectionMessage
    /\ last.node # Max(Live)
    /\ is_leader(ring[last.node], Max(Live))

\* C9: a server that handles an ELECTION record whose originator is itself
\* forwards no ELECTION record, completes the election with the carried
\* candidate, is idle afterwards and has no election timer running,
\* whether or not it had an election in progress before.
C9_OwnMessageCompletes ==
    OwnElectionMessage =>
        /\ \A i \in 1..Len(last.out) : last.out[i].msg.type # "ELECTION"
        /\ last.cb = <<last.msg.candidate_id>>
        /\ last.msg.candidate_id \in keys(ring[last.node]) =>
               leaders(ring[last.node]) = {last.msg.candidate_id}
        /\ Idle(last.node)
        /\ ~election[last.node].election_timer

C9_CompletedWhileIdle == OwnElectionMessage /\ ~last.was_in_progress

\* C10: add_server for an id that is already in the view leaves the view
\* (membership map, ring order, both neighbors, leader flags) unchanged
\* whatever ip, port and is_leader the call passes.
C10_AddKnownIsNoOp ==
    [][(last'.op = "add_server" /\ last'.known) => ring' = ring]_vars

C10_RepeatedAddDiffers ==
    /\ last.op = "add_server"
    /\ last.known
    /\ last.is_leader
    /\ ~is_leader(ring[last.node], last.server_id)
    /\ get_server(ring[last.node], last.server_id).ip # last.ip

\* C11: a set_leader(x) that repeats the call before it leaves the view
\* as the first call left it, and after any set_leader(y) no record other
\* than y has is_leader = TRUE.
C11_SetLeaderIdempotent ==
    [][last'.op = "set_leader" =>
          /\ leaders(ring'[last'.node]) \subseteq {last'.server_id}
          /\ last'.again => ring' = ring]_vars

C11_LeaderSetTwice ==
    /\ last.op = "set_leader"
    /\ last.again
    /\ leaders(ring[last.node]) = {last.server_id}
    /\ ring_size(ring[last.node]) >= 2


\* C12: a DISCOVERY_ANNOUNCE for an id the receiver has already discovered
\* leaves its ring view (membership, order, leader flags) and its election
\* state as they were, calls no on_server_discovered and sends nothing, also
\* when the receiver is the leader in its own view.
C12_KnownAnnounceIsNoOp ==
    [][(/\ last'.op = "handle_discovery_message"
        /\ last'.msg.server_id \in discovered_servers[last'.node])
       => /\ ring' = ring
          /\ election' = election
          /\ net' = net
          /\ ~last'.on_server_discovered
          /\ last'.out = <<>>
          /\ Count(ring'[last'.node].ring_order, last'.msg.server_id) <= 1]_vars

C12_LeaderHearsKnownServer ==
    /\ last.op = "handle_discovery_message"
    /\ ~last.on_server_discovered
    /\ is_leader(ring[last.node], last.node)
    /\ last.msg.server_id \in keys(ring[last.node])
    /\ ~election[last.node].election_in_progress


\* C13: in a ring view that holds the server's own id, a lone member has no
\* neighbors; with two or more members the right neighbor is the next
\* greater member id (the smallest one after the greatest), the left
\* neighbor the next smaller one (the greatest one before the smallest),
\* and neither is the server itself.
C13_NeighborsFollowSortedOrder ==
    \A n \in Nodes :
        n \in keys(ring[n]) =>
            LET S == keys(ring[n])
                above == {m \in S : m > n}
                below == {m \in S : m < n}
                least(T) == CHOOSE x \in T : \A y \in T : x <= y
                greatest(T) == CHOOSE x \in T : \A y \in T : y <= x
            IN  IF Cardinality(S) = 1
                THEN /\ ring[n].left_neighbor = None
                     /\ ring[n].right_neighbor = None
                ELSE /\ ring[n].right_neighbor =
                            (IF above # {} THEN least(above) ELSE least(S))
                     /\ ring[n].left_neighbor =
                            (IF below # {} THEN greatest(below)
                             ELSE greatest(S))
                     /\ ring[n].right_neighbor \notin {n, None}
                     /\ ring[n].left_neighbor \notin {n, None}

C13_NeighborsWrapAround ==
    /\ last.op = "remove_server"
    /\ last.known
    /\ last.node \in keys(ring[last.node])
    /\ ring_size(ring[last.node]) = 2
    /\ ring[last.node].right_neighbor < last.node
    /\ ring[last.node].right_neighbor # None

\* C14: after any sequence of add_server and remove_server calls ring_order
\* lists exactly the current member ids, each once, in ascending order; the
\* order is therefore a function of the member set alone, whatever order
\* the members were inserted in.
C14_RingOrderIsSortedMembers ==
    \A n \in Nodes :
        LET o == ring[n].ring_order
        IN  /\ SeqToSet(o) = keys(ring[n])
            /\ Len(o) = Len(ring[n].ring_members)
            /\ \A i \in 1..Len(o), j \in 1..Len(o) : i < j => o[i] < o[j]

C14_InsertedOutOfOrder ==
    /\ last.op = "remove_server"
    /\ last.known
    /\ Len(ring[last.node].ring_members) = 2
    /\ ring[last.node].ring_members[1].server_id
           > ring[last.node].ring_members[2].server_id


\* C15: once start() has added the server to its own ring, the server's own
\* id is a member of its own ring view in every state; no sweep of the
\* failure detector, election step or discovery step removes it.
C15_OwnIdStaysInOwnView ==
    \A n \in Nodes : phase[n] # "STARTING" => n \in keys(ring[n])

C15_SweepRemovedOthersOnly ==
    /\ last.op = "heartbeat_loop"
    /\ Len(last.msg.crashed) = 2
    /\ keys(ring[last.node]) = {last.node}


\* C16: an append leaves at most MAX_MESSAGE_HISTORY messages in the
\* buffer; the appended message is the last one, the messages kept are the
\* most recent ones in their arrival order, and only as many of the oldest
\* are dropped as the limit requires.
C16_HistoryKeepsMostRecent ==
    [][last'.op = "add_to_history" =>
          LET n == last'.node
              old == message_history[n]
              new == message_history'[n]
              dropped == Len(old) + 1 - Len(new)
          IN  /\ Len(new) <= MAX_MESSAGE_HISTORY
              /\ Len(new) = IF Len(old) < MAX_MESSAGE_HISTORY
                            THEN Len(old) + 1 ELSE MAX_MESSAGE_HISTORY
              /\ new[Len(new)] = last'.msg
              /\ \A i \in 1..(Len(new) - 1) : new[i] = old[i + dropped]]_vars

C16_OldestEvicted ==
    /\ last.op = "add_to_history"
    /\ last.overflow
    /\ Len(message_history[last.node]) = MAX_MESSAGE_HISTORY
    /\ message_history[last.node][1].id > 1
    /\ message_history[last.node][MAX_MESSAGE_HISTORY] = last.msg


\* The positions of the records of a type among those written to client c
Positions(c, type) ==
    {i \in 1..Len(conn[c].down) : conn[c].down[i].type = type}

\* C17: a client whose first and only record is a CLIENT_JOIN is stored in
\* the client table of its server and is written a WELCOME with the
\* server's id; the server does not close its connection without having
\* done so.
C17_SingleJoinIsRegistered ==
    \A c \in Clients :
        (/\ conn[c].written = 1
         /\ conn[c].closed_by = "server")
        => \E i \in Positions(c, "WELCOME") :
               conn[c].down[i].server_id = conn[c].server

\* C18: every MESSAGE_HISTORY record written to a client comes after the
\* WELCOME written to it.
C18_WelcomeBeforeHistory ==
    \A c \in Clients :
        \A i \in Positions(c, "MESSAGE_HISTORY") :
            \E j \in Positions(c, "WELCOME") : j < i

\* C19: the MESSAGE_HISTORY record written to a joining client holds the
\* last min(HISTORY_SLICE, n) entries of the n entries the server's
\* history buffer holds at the join, in the order of the buffer.
C19_HistoryRecordIsBufferTail ==
    [][(last'.op = "handle_client" /\ last'.registered) =>
          LET c == last'.client
              h == message_history[last'.node]
              m == IF Len(h) < HISTORY_SLICE THEN Len(h) ELSE HISTORY_SLICE
          IN  \A i \in (Len(conn[c].down) + 1)..Len(conn'[c].down) :
                  conn'[c].down[i].type = "MESSAGE_HISTORY" =>
                      /\ Len(conn'[c].down[i].messages) = m
                      /\ \A j \in 1..m :
                             conn'[c].down[i].messages[j] = h[Len(h) - m + j]]_vars

C19_LongHistoryJoined ==
    /\ last.op = "handle_client"
    /\ last.registered
    /\ Len(message_history[last.node]) > HISTORY_SLICE
    /\ \E i \in Positions(last.client, "MESSAGE_HISTORY") :
          /\ Len(conn[last.client].down[i].messages) = HISTORY_SLICE
          /\ conn[last.client].down[i].messages[1].id > 1


\* a stands before b in the sequence s
Before(s, a, b) ==
    \E i \in 1..Len(s), j \in 1..Len(s) : i < j /\ s[i] = a /\ s[j] = b

\* C20: two chat messages the leader has accepted one before the other (in
\* the order of its history buffer) are never written to the local clients
\* of a server, nor stored in the history of a server, in the opposite
\* order, also when the leader took them on two connections at once.
C20_LeaderOrderEverywhere ==
    LET accepted == message_history[Max(Nodes)]
    IN  \A n \in Nodes :
            \A a \in SeqToSet(accepted), b \in SeqToSet(accepted) :
                Before(accepted, a, b) =>
                    /\ ~Before(delivered[n], b, a)
                    /\ ~Before(message_history[n], b, a)
                    /\ \A c \in Clients : ~Before(conn[c].down, b, a)

\* C21: a server that is not the leader in its own view and handles a
\* FORWARD_MESSAGE has the embedded original message as the newest entry of
\* its history and as the newest message written to its local clients, and
\* has sent no record to any server.
C21_NonLeaderStoresAndDelivers ==
    (/\ last.op = "handle_forwarded_message"
     /\ ~is_leader(ring[last.node], last.node))
    => LET n == last.node
           original == last.msg.original_message
       IN  /\ message_history[n] # <<>>
           /\ message_history[n][Len(message_history[n])] = original
           /\ delivered[n] # <<>>
           /\ delivered[n][Len(delivered[n])] = original
           /\ last.out = <<>>

\* C22: while no server of the three-server ring has crashed and every
\* server runs its heartbeat loop in every interval, no sweep of the failure
\* detector collects a crashed server and every view keeps every server.
C22_NoFalseCrashDetection ==
    crashes = 0 =>
        /\ \A n \in Nodes : keys(ring[n]) = Nodes
        /\ last.op = "heartbeat_loop" => last.msg.crashed = <<>>

\* The last step handled an ELECTION record that another server originated.
ForeignElectionMessage ==
    /\ last.op \in {"handle_election_message", "retry_election"}
    /\ last.msg.originator_id # last.node

\* C23: a server that handles ELECTION{candidate C, originator O, hop h}
\* with O other than itself sends exactly one record: an ELECTION to its
\* right neighbor with the greater of C and its own id as candidate, the
\* originator O and the hop count h + 1 (hop counts are kept up to MaxHops).
C23_ForwardsGreaterCandidate ==
    ForeignElectionMessage =>
        /\ Len(last.out) = 1
        /\ last.out[1].dst = ring[last.node].right_neighbor
        /\ last.out[1].dst \notin {None, last.node}
        /\ last.out[1].msg.type = "ELECTION"
        /\ last.out[1].msg.candidate_id =
               (IF last.msg.candidate_id > last.node
                THEN last.msg.candidate_id ELSE last.node)
        /\ last.out[1].msg.originator_id = last.msg.originator_id
        /\ last.msg.hop_count < MaxHops =>
               last.out[1].msg.hop_count = last.msg.hop_count + 1

C23_CandidateReplaced ==
    /\ ForeignElectionMessage
    /\ last.msg.candidate_id < last.node
    /\ last.msg.hop_count = 1
    /\ Len(last.out) = 1
    /\ last.out[1].msg.candidate_id = last.node
    /\ last.out[1].msg.hop_count = 2

\* The servers that have started an election of their own so far.
Originators == {n \in Nodes : election[n].election_originator = n}

\* C24: an ELECTION record comes back to its originator only when no server
\* with a greater id has started an election of its own: of the elections
\* started side by side, only the one of the greatest originator sees its
\* record return.
C24_OnlyMaxOriginatorReturns ==
    OwnElectionMessage => \A n \in Originators : n <= last.node

\* C25: the server that completed an election and sent its
\* LEADER_ANNOUNCEMENT sends no record when that announcement reaches it
\* again: the traversal ends there at the latest, whoever the announced
\* leader is and whether or not the leader is still a member of the ring.
C25_AnnouncerStopsTraversal ==
    (/\ last.op = "handle_leader_announcement"
     /\ last.msg.announcer = last.node)
    => last.out = <<>>

\* C26: after a server has handled a LEADER_ANNOUNCEMENT, or has completed
\* an election on the return of its own ELECTION record, its ring view
\* marks exactly the announced (winning) id as leader and get_leader
\* returns it, whether or not that id was a member of the view.
C26_AnnouncedLeaderIsMarked ==
    LET id == IF last.op = "handle_leader_announcement"
              THEN last.msg.leader_id ELSE last.msg.candidate_id
    IN  (last.op = "handle_leader_announcement" \/ OwnElectionMessage) =>
            /\ leaders(ring[last.node]) = {id}
            /\ get_leader(ring[last.node]) = id

\* C27: one chat message is written to the local clients of a server only
\* a bounded number of times (fewer than MaxDeliveries, however large that
\* is chosen), also while two servers each take themselves for the leader:
\* the servers do not hand the same message back and forth.
C27_BoundedRedistribution ==
    \A n \in Nodes :
        \A i \in 1..Len(delivered[n]) :
            Deliveries(n, delivered[n][i]) < MaxDeliveries

\* C28: an ELECTION record is forwarded only finitely often: a record that
\* has already been forwarded MaxHops times (further than once around any
\* ring, however large MaxHops is chosen) and whose originator has crashed
\* or is not a member of the handling server's view is dropped, not sent on.
OriginatorGone(n, message) ==
    \/ message.originator_id \notin keys(ring[n])
    \/ phase[message.originator_id] = "CRASHED"

C28_OrphanElectionIsDropped ==
    (/\ ForeignElectionMessage
     /\ last.msg.hop_count = MaxHops
     /\ OriginatorGone(last.node, last.msg))
        => last.out = <<>>

\* C29: when the leader handles a client chat message, the message becomes
\* the newest entry of its history and the newest message written to its
\* local clients, and one FORWARD_MESSAGE with origin_server_id equal to the
\* leader's id goes to every member of its view other than itself and to no
\* other server.
C29_LeaderDistributesToView ==
    last.op = "distribute_message"
        => LET n == last.node
               others == keys(ring[n]) \ {n}
           IN  /\ is_leader(ring[n], n)
               /\ message_history[n] # <<>>
               /\ message_history[n][Len(message_history[n])] = last.msg
               /\ delivered[n] # <<>>
               /\ delivered[n][Len(delivered[n])] = last.msg
               /\ Len(last.out) = Cardinality(others)
               /\ {last.out[i].dst : i \in 1..Len(last.out)} = others
               /\ \A i \in 1..Len(last.out) :
                      last.out[i].msg =
                          [type |-> "FORWARD_MESSAGE",
                           original_message |-> last.msg,
                           origin_server_id |-> n]

C29_LeaderOfThreeDistributes ==
    /\ last.op = "distribute_message"
    /\ Cardinality(keys(ring[last.node])) = 3
    /\ Len(last.out) = 2

\* C30: when a server that is not leader in its own view handles a client
\* chat message, it sends exactly one FORWARD_MESSAGE, to the server its
\* view marks as leader, and neither its history nor the messages written
\* to its local clients change; when its view marks no leader, nothing is
\* sent and nothing changes.
C30_NonLeaderForwardsOrDrops ==
    [][(last'.op = "forward_to_leader")
          => LET n == last'.node
                 leader == get_leader(ring[n])
             IN  /\ ~is_leader(ring[n], n)
                 /\ UNCHANGED <<message_history, delivered, ring, election,
                                clients>>
                 /\ IF leader = None
                    THEN /\ last'.out = <<>>
                         /\ UNCHANGED net
                    ELSE /\ leader # n
                         /\ last'.out =
                                <<[dst |-> leader,
                                   msg |-> [type |-> "FORWARD_MESSAGE",
                                            original_message |-> last'.msg,
                                            origin_server_id |-> n]]>>
                         /\ net' = [net EXCEPT ![<<n, leader>>] =
                                        Append(@, last'.out[1].msg)]]_vars

C30_ForwardedToLeader ==
    /\ last.op = "forward_to_leader"
    /\ Len(last.out) = 1
    /\ last.out[1].dst = get_leader(ring[last.node])

\* C31: a sweep of the failure detector removes exactly the peers it
\* declares crashed from the server's ring.  When none of them was marked
\* leader in the server's view, the election state and the marked leader are
\* unchanged and no ELECTION record is sent; when one of them was the
\* leader, start_election runs: afterwards an election is in progress at the
\* server, or the server, left alone, has made itself leader.
CrashedIn(step) == SeqToSet(step.msg.crashed)

C32_GracePeriod ==
    [][(last'.op = "heartbeat_loop")
          => LET n == last'.node
                 lhr == last_heartbeat_received[n]
             IN  /\ \A p \in keys(ring[n]) \ {n} :
                        lhr[p] = None
                            => /\ p \notin CrashedIn(last')
                               /\ p \in keys(ring'[n])
                               /\ last_heartbeat_received'[n][p] = Stamp
                 /\ \A p \in CrashedIn(last') :
                        /\ lhr[p] # None
                        /\ Elapsed(lhr[p]) > HEARTBEAT_TIMEOUT
                        /\ last_heartbeat_received'[n][p] = lhr[p]]_vars

C32_DeclaredAfterTimeout ==
    /\ last.op = "heartbeat_loop"
    /\ last.msg.crashed # <<>>
    /\ \A p \in CrashedIn(last) :
           Elapsed(last_heartbeat_received[last.node][p]) > HEARTBEAT_TIMEOUT

\* C33: a server with a right neighbor whose start_election is called while
\* an election is in progress (at start-up or by the thread of the expired
\* election timer) keeps its election state and its ring and sends nothing.
\* The thread of an expired timer calls start_election once and ends: it
\* starts an election, with one ELECTION record, only when no election is
\* in progress at that moment.
StartElectionCalled ==
    \/ last'.op = "timer_restart"
    \/ /\ last'.op = "start"
       /\ get_leader(ring[last'.node]) = None
       /\ ring_size(ring[last'.node]) > 1

C33_StartElectionGuarded ==
    [][(StartElectionCalled /\ ring[last'.node].right_neighbor # None)
          => LET n == last'.node
             IN  /\ last'.op = "timer_restart" => timer_thread'[n] = "none"
                 /\ IF election[n].election_in_progress
                    THEN /\ election'[n] = election[n]
                         /\ ring'[n] = ring[n]
                         /\ last'.out = <<>>
                         /\ last'.cb = <<>>
                         /\ net' = net
                    ELSE /\ election'[n].election_in_progress
                         /\ election'[n].election_originator = n
                         /\ Len(last'.out) = 1
                         /\ last'.out[1].msg =
                                create_election_message(n, n, 0)]_vars

C33_RestartIgnored ==
    /\ last.op = "timer_restart"
    /\ last.was_in_progress
    /\ last.out = <<>>
    /\ ring[last.node].right_neighbor # None

\* C34: when a server has just accepted a leader (it completed its own
\* election or handled a LEADER_ANNOUNCEMENT) and the thread of the timer
\* armed for that election takes its next step, that step starts no
\* election: it sends nothing and leaves the server without an election in
\* progress.
AcceptedLeader ==
    \/ last.op = "handle_leader_announcement"
    \/ OwnElectionMessage

C34_ExpiredTimerStartsNoElection ==
    [][(/\ AcceptedLeader
        /\ last'.op = "timer_restart"
        /\ last'.node = last.node)
          => /\ last'.out = <<>>
             /\ ~election'[last.node].election_in_progress]_vars

\* C35: no record is written to a socket while the sending server holds one
\* of its locks.
\* The locks the sending thread holds while it paces and writes a record to
\* a peer: ELECTION records are sent by _send_election_message and
\* LEADER_ANNOUNCEMENT records by _announce_leader, both only called inside
\* "with self.election_lock"; heartbeats and forwarded chat messages are
\* handed to _send_to_server, which releases connections_lock before
\* sendall.
locks_held_while_sending(record) ==
    IF record.type \in {"ELECTION", "LEADER_ANNOUNCEMENT"}
    THEN {"election_lock"}
    ELSE {}

C35_NoLockHeldWhileSending ==
    "out" \in DOMAIN last
        => \A i \in 1..Len(last.out) :
               locks_held_while_sending(last.out[i].msg) = {}

\* C36: a server that adds a newly discovered member to its ring starts an
\* election when it is the leader in its own view (start_election runs:
\* afterwards an election is in progress, and one ELECTION record for the
\* server itself went to its right neighbor unless an election was already
\* in progress); a server that is not the leader in its own view adds the
\* member and leaves its election state alone and sends nothing.
C36_OnlyLeaderReelects ==
    [][(last'.op = "handle_discovery_message" /\ last'.on_server_discovered)
          => LET n == last'.node
                 m == last'.msg.server_id
             IN  /\ m \in keys(ring'[n])
                 /\ keys(ring'[n]) = keys(ring[n]) \cup {m}
                 /\ IF is_leader(ring[n], n)
                    THEN /\ election'[n].election_in_progress
                         /\ IF election[n].election_in_progress
                            THEN last'.out = <<>>
                            ELSE last'.out =
                                   <<[dst |-> ring'[n].right_neighbor,
                                      msg |-> create_election_message(
                                                  n, n, 0)]>>
                    ELSE /\ election'[n] = election[n]
                         /\ leaders(ring'[n]) = leaders(ring[n])
                         /\ last'.out = <<>>
                         /\ last'.cb = <<>>]_vars

C36_LeaderStartedElection ==
    /\ last.op = "handle_discovery_message"
    /\ last.on_server_discovered
    /\ is_leader(ring[last.node], last.node)
    /\ ~last.was_in_progress
    /\ Len(last.out) = 1
    /\ last.out[1].msg.type = "ELECTION"

\* C37: an ELECTION record handled by a server without right neighbor is
\* parked: the election state and the ring stay as they are and nothing is
\* sent.  The retry thread takes the record up once: with a right neighbor
\* it is handled as handle_election_message handles it, without one it is
\* dropped with nothing changed; in both cases the record is no longer
\* parked afterwards.
C37_ParkedElectionRetriedOnce ==
    [][LET n == last'.node
           message == last'.msg
       IN  /\ last'.op = "park_election"
                 => /\ ring[n].right_neighbor = None
                    /\ election'[n] = election[n]
                    /\ ring'[n] = ring[n]
                    /\ last'.out = <<>> /\ last'.cb = <<>>
                    /\ retry'[n] = Append(retry[n], message)
           /\ last'.op = "retry_election"
                 => /\ ring[n].right_neighbor # None
                    /\ message = Head(retry[n])
                    /\ retry'[n] = Tail(retry[n])
                    /\ LET eff == handle_election_message(
                                      n, ring[n], election[n], message)
                       IN  /\ election'[n] = eff.el
                           /\ ring'[n] = eff.ring
                           /\ last'.out = eff.out
                           /\ Len(last'.out) <= 1
           /\ last'.op = "drop_election"
                 => /\ ring[n].right_neighbor = None
                    /\ message = Head(retry[n])
                    /\ retry'[n] = Tail(retry[n])
                    /\ election'[n] = election[n]
                    /\ ring'[n] = ring[n]
                    /\ net' = net
                    /\ last'.out = <<>> /\ last'.cb = <<>>]_vars

C37_ParkedRecordHandled ==
    /\ last.op = "retry_election"
    /\ retry[last.node] = <<>>
    /\ election[last.node].election_in_progress

\* C38: a server that has removed a peer from its ring after declaring it
\* crashed, and then receives a DISCOVERY_ANNOUNCE of that peer, has the
\* peer in its ring again.
C38_AnnouncedPeerIsInRing ==
    last.op = "handle_discovery_message"
        => last.msg.server_id \in keys(ring[last.node])

\* C39: in one election with a single originator every server of the ring
\* fires on_leader_elected exactly once: the server that completed the
\* election, and fired then, does not fire again when its
\* LEADER_ANNOUNCEMENT comes back to it.
C39_LeaderElectedFiresOnce ==
    (/\ last.op = "handle_leader_announcement"
     /\ last.msg.announcer = last.node
     /\ Cardinality(Originators) = 1)
        => last.cb = <<>>

----------------------------------------------------------------------------
(* SpecSession: clients join with two CLIENT_JOIN records, one chat        *)
(* message is written, and the clients leave: they write CLIENT_LEAVE, and *)
(* they close their sockets at any moment, so that a broadcast can find a  *)
(* socket it cannot write to.                                              *)

InitSession == InitAgreed(Nodes)

NextSession ==
    \/ \E c \in Clients, n \in Nodes : ClientConnect(c, n)
    \/ \E c \in Clients : (/\ conn[c].closed_by = "nobody"
                            /\ conn[c].written < MaxSessionJoins
                            /\ ClientSendJoin(c))
    \/ \E c \in Clients : HandleNewConnection(c)
    \/ \E c \in Clients : HandleClient(c)
    \/ \E c \in Clients : SessionReceive(c)
    \/ \E c \in Clients : (/\ conn[c].closed_by = "nobody"
                            /\ sent = 0
                            /\ ClientSendChat(c))
    \/ \E c \in Clients : OnMessageToClients(c)
    \/ \E c \in Clients : OnBroadcastToServers(c)
    \/ \E c \in Clients : ClientSendLeave(c)
    \/ \E c \in Clients : ClientClose(c)
    \/ \E c \in Clients : ClientDisconnect(c)

SpecSession == InitSession /\ [][NextSession]_vars

\* The client table of the server of c's connection holds c.
Registered(c) ==
    /\ conn[c].server # None
    /\ c \in SeqToSet(clients[conn[c].server])

\* The steps in which a server calls broadcast_to_all_clients.
Broadcasts(step) ==
    \/ step.op = "handle_client" /\ step.registered
    \/ step.op = "on_message_to_clients"
    \/ step.op = "disconnect" /\ step.on_client_left # <<>>

\* C40: when the session of a registered client ends (the socket is closed,
\* CLIENT_LEAVE is handled, or a write of a broadcast fails), the client
\* table has no entry for it afterwards, the entries of the other sessions
\* are untouched, and on_client_left fires exactly once for it: it fires in
\* the step that ends the session thread and in no other step, an ended
\* session stays ended, a broadcast removes every client whose socket the
\* server has closed and no client whose socket is open.
C40_EndedSessionIsRemoved ==
    [][\A c \in Clients :
        LET ended == conn[c].stage = "session" /\ conn'[c].stage = "closed"
        IN  /\ ended => /\ last'.op = "disconnect"
                        /\ last'.client = c
                        /\ last'.on_client_left = <<c>>
            /\ (/\ last'.op = "disconnect"
                /\ last'.client = c
                /\ last'.on_client_left # <<>>) => ended
            /\ conn[c].stage = "closed" => conn'[c].stage = "closed"
            /\ conn'[c].stage = "closed" =>
                   \A n \in Nodes : c \notin SeqToSet(clients'[n])
            /\ (/\ Broadcasts(last')
                /\ conn[c].server = last'.node
                /\ conn[c].closed_by = "server") =>
                   c \notin SeqToSet(clients'[last'.node])
            /\ (/\ Registered(c)
                /\ ~ended
                /\ conn[c].closed_by = "nobody") =>
                   c \in SeqToSet(clients'[conn[c].server])
            /\ (c \in SeqToSet(clients'[last'.node])
                    /\ c \notin SeqToSet(clients[last'.node])) =>
                   /\ last'.op = "handle_client"
                   /\ last'.client = c]_vars

\* A broadcast has failed to write to a client that had closed its socket:
\* the client is out of the table while its session thread has not ended
\* and another client is still registered.
C40_EvictedByFailedWrite ==
    /\ Broadcasts(last)
    /\ \E c \in Clients, d \in Clients :
          /\ c # last.client
          /\ conn[c].stage = "session"
          /\ conn[c].closed_by = "client"
          /\ conn[c].server = last.node
          /\ ~Registered(c)
          /\ d # c
          /\ Registered(d)
          /\ conn[d].server = last.node

=============================================================================
